---- MODULE Spec2Model ----
(***************************************************************************)
(* A model of ccrank's aggregation and ranking engine                      *)
(* (packages/web/convex/leaderboard.ts, stats.ts and users.ts), of its API *)
(* keys (apiKeys.ts), of the cumulative chart of MemberUsageChart.tsx and  *)
(* of the Slack command's period arguments                                 *)
(* (packages/web/app/api/sync/route.ts).                                   *)
(*                                                                         *)
(* Representation choices:                                                 *)
(*  - a date string "YYYY-MM-DD" is the sequence of its UTF-16 code units   *)
(*    ("0" = 48 .. "9" = 57, "-" = 45); JavaScript's string comparison is   *)
(*    the lexicographic comparison of these sequences;                     *)
(*  - an instant is reduced to its UTC day number (days since 1970-01-01), *)
(*    which is all that getTomorrow / getDaysAgo / getISOWeekMonday read;  *)
(*  - totalCost is a JavaScript number (IEEE-754 binary64).  The model     *)
(*    keeps the rounding of floating-point addition (round to nearest,     *)
(*    ties to even) on a significand of MantissaBits bits; costs are held  *)
(*    in quarter-cents so that a cent has a fractional part to round;      *)
(*  - token counters are integers far below 2^53, where binary64 addition  *)
(*    is exact;                                                            *)
(*  - a query is an action that records the call and what it returned; the  *)
(*    caller then takes the result (Respond) before the next call;          *)
(*  - a mutation is one Convex transaction: one action, or, where queries   *)
(*    run beside it, a start, its writes to its own view, and a commit.     *)
(*                                                                         *)
(* Specifications:                                                         *)
(*    Spec        the leaderboard queries over small record tables         *)
(*    SpecOrder   the same queries over one user's records on three days   *)
(*    SpecWindow  the window filters at the window's boundaries            *)
(*    SpecChart   the usage charts at day, week and month buckets          *)
(*    SpecDates   the window resolver over a range of clock days           *)
(*    SpecSync    the five mutations of the dailyStats table               *)
(*    SpecTxn     queries answered while a sync is being written           *)
(*    SpecTeam    team filters, deleted users and getUserRank              *)
(*    SpecSlack   the entry points that take a period                      *)
(*    SpecSeries  per-user chart series under look-alike names, and the    *)
(*                cumulative chart of MemberUsageChart.tsx                 *)
(*    SpecKeys    the API key mutations of apiKeys.ts                      *)
(*    SpecBucket  the bucket key of pairs of dates                         *)
(*    SpecPoints  the charts of a store with a user named "date"           *)
(*    SpecLimit   the leaderboard queries with a limit of 0                *)
(***************************************************************************)
EXTENDS Integers, Sequences, FiniteSets, TLC

VARIABLES
    nowDay,      \* the UTC day number of Date.now()
    dailyStats,  \* the dailyStats table, in the order collect() returns it
    users,       \* the users table: the set of stored user documents
    insightsReports, \* the userIds of the insightsReports table
    apiKeys,     \* the apiKeys table, in the order collect() returns it
    txn,         \* the mutation in progress: its arguments and its writes
    call,        \* the last function invoked, with its arguments
    response     \* what that function returned

vars == <<nowDay, dailyStats, users, insightsReports, apiKeys, txn, call,
          response>>

----------------------------------------------------------------------------
(* Generic helpers *)

Min(a, b) == IF a <= b THEN a ELSE b

Range(s) == {s[i] : i \in 1..Len(s)}

RECURSIVE SumSet(_, _)
\* The exact sum of f[x] over the finite set S.
SumSet(S, f) ==
    IF S = {} THEN 0
    ELSE LET x == CHOOSE y \in S : TRUE IN f[x] + SumSet(S \ {x}, f)

Max(a, b) == IF a >= b THEN a ELSE b

\* A variant of Slice that stops one element early.
SliceOffByOne(s, n) == SubSeq(s, 1, Min(n, Len(s)) - 1)

\* Array.prototype.slice(0, n) for an integer n: a negative n counts from
\* the end.
Slice(s, n) ==
    IF n >= 0 THEN SubSeq(s, 1, Min(n, Len(s)))
    ELSE SubSeq(s, 1, Max(Len(s) + n, 0))

\* String.prototype.slice(-n) for n > 0: the last n code units.
SliceLast(s, n) == SubSeq(s, Max(Len(s) - n, 0) + 1, Len(s))

----------------------------------------------------------------------------
(* JavaScript numbers: floating-point addition on a reduced significand *)

\* Width of the significand, scaled down from binary64's 53 bits.
MantissaBits == 5

RECURSIVE Pow2(_)
Pow2(n) == IF n = 0 THEN 1 ELSE 2 * Pow2(n - 1)

RECURSIVE Ulp(_)
\* The spacing of representable values around x >= 0 (1 below 2^MantissaBits).
Ulp(x) == IF x < Pow2(MantissaBits) THEN 1 ELSE 2 * Ulp(x \div 2)

\* Round the exact value x >= 0 to the nearest representable one, ties to even.
RoundTo(step, q, r) ==
    IF 2 * r < step THEN q * step
    ELSE IF 2 * r > step THEN (q + 1) * step
    ELSE IF q % 2 = 0 THEN q * step
    ELSE (q + 1) * step

RoundToStep(x, step) == RoundTo(step, x \div step, x % step)

Fl(x) == RoundToStep(x, Ulp(x))

\* a + b on numbers that hold a cost.
FAdd(a, b) == Fl(a + b)

\* Quarter-cents in a cent (the unit costs are held in).
QuarterCents == 4

\* Math.round(x * 100) / 100: to the nearest cent, halves up.
Round2(x) == Fl(QuarterCents * ((2 * x + QuarterCents) \div (2 * QuarterCents)))

----------------------------------------------------------------------------
(* Dates: Date <-> "YYYY-MM-DD" *)

\* Days since 1970-01-01 of the civil date y-m-d (what Date.UTC computes).
DaysFromMarchYear(yy, mp, d) ==
    (yy \div 400) * 146097
      + (yy % 400) * 365 + (yy % 400) \div 4 - (yy % 400) \div 100
      + (153 * mp + 2) \div 5 + d - 1 - 719468

DaysFromCivil(y, m, d) ==
    DaysFromMarchYear(IF m <= 2 THEN y - 1 ELSE y,
                      IF m > 2 THEN m - 3 ELSE m + 9, d)

\* The civil date of a day number (what getUTCFullYear/Month/Date return),
\* by eras of 400 years: day of era, year of era, day of the March-based year.
DayOfEra(z) == (z + 719468) % 146097

YearOfEra(doe) ==
    (doe - doe \div 1460 + doe \div 36524 - doe \div 146096) \div 365

DayOfYear(doe, yoe) == doe - (365 * yoe + yoe \div 4 - yoe \div 100)

CivilFromParts(era, yoe, doy, mp) ==
    [y |-> yoe + era * 400 + (IF mp < 10 THEN 0 ELSE 1),
     m |-> IF mp < 10 THEN mp + 3 ELSE mp - 9,
     d |-> doy - (153 * mp + 2) \div 5 + 1]

CivilFromYearDay(era, yoe, doy) ==
    CivilFromParts(era, yoe, doy, (5 * doy + 2) \div 153)

CivilFromEraDay(era, doe, yoe) ==
    CivilFromYearDay(era, yoe, DayOfYear(doe, yoe))

CivilFromDays(z) ==
    CivilFromEraDay((z + 719468) \div 146097, DayOfEra(z),
                    YearOfEra(DayOfEra(z)))

Digit(n) == 48 + n

Pad2(n) == <<Digit(n \div 10), Digit(n % 10)>>

Pad4(n) == <<Digit(n \div 1000), Digit((n \div 100) % 10),
             Digit((n \div 10) % 10), Digit(n % 10)>>

\* date.toISOString().split("T")[0]
FormatCivil(c) == Pad4(c.y) \o <<45>> \o Pad2(c.m) \o <<45>> \o Pad2(c.d)

FormatDate(day) == FormatCivil(CivilFromDays(day))

RECURSIVE ParseInt(_)
ParseInt(s) ==
    IF s = <<>> THEN 0
    ELSE 10 * ParseInt(SubSeq(s, 1, Len(s) - 1)) + (s[Len(s)] - 48)

\* Day number of new Date(dateStr + "T00:00:00Z").
ParseDate(s) ==
    DaysFromCivil(ParseInt(SubSeq(s, 1, 4)), ParseInt(SubSeq(s, 6, 7)),
                  ParseInt(SubSeq(s, 9, 10)))

RECURSIVE StrLE(_, _)
\* a <= b on JavaScript strings: by code unit, a proper prefix first.
StrLE(a, b) ==
    IF a = <<>> THEN TRUE
    ELSE IF b = <<>> THEN FALSE
    ELSE IF a[1] # b[1] THEN a[1] < b[1]
    ELSE StrLE(Tail(a), Tail(b))

\* getTomorrow(): today's UTC date plus one day.
getTomorrow == FormatDate(nowDay + 1)

\* getDaysAgo(days): days + 1 days before today's UTC date.
getDaysAgo(days) == FormatDate(nowDay - days - 1)

\* The "2000-01-01" literal used as the all-time floor.
Epoch2000 == FormatDate(DaysFromCivil(2000, 1, 1))

Periods == {"daily", "weekly", "monthly", "alltime"}

getPeriodDateRanges(period) ==
    CASE period = "daily" ->
           [currentStart |-> getDaysAgo(1), currentEnd |-> getTomorrow,
            previousStart |-> getDaysAgo(3), previousEnd |-> getDaysAgo(1),
            hasPrevious |-> TRUE]
      [] period = "weekly" ->
           [currentStart |-> getDaysAgo(7), currentEnd |-> getTomorrow,
            previousStart |-> getDaysAgo(14), previousEnd |-> getDaysAgo(7),
            hasPrevious |-> TRUE]
      [] period = "monthly" ->
           [currentStart |-> getDaysAgo(30), currentEnd |-> getTomorrow,
            previousStart |-> getDaysAgo(60), previousEnd |-> getDaysAgo(30),
            hasPrevious |-> TRUE]
      [] period = "alltime" ->
           [currentStart |-> Epoch2000, currentEnd |-> getTomorrow,
            previousStart |-> Epoch2000, previousEnd |-> Epoch2000,
            hasPrevious |-> FALSE]

----------------------------------------------------------------------------
(* Documents *)

\* An optional field is a sequence: <<>> when absent, <<v>> when present.
Absent == <<>>

Some(v) == <<v>>

\* getEffectiveDate(stat): stat.utcDate ?? stat.date
getEffectiveDate(stat) ==
    IF stat.utcDate = Absent THEN stat.date ELSE stat.utcDate[1]

\* ctx.db.get(id) on the users table: the documents with that _id (0 or 1).
GetUser(id) == {u \in users : u.id = id}

\* rankChange: number | "new" | null
RankNull == [tag |-> "null", delta |-> 0]

RankNew == [tag |-> "new", delta |-> 0]

RankDelta(n) == [tag |-> "number", delta |-> n]

----------------------------------------------------------------------------
(* buildLeaderboardFromStats *)

\* A variant of InRange that leaves the end date out.
InRangeExclusiveEnd(stat, startDate, endDate) ==
    /\ StrLE(startDate, getEffectiveDate(stat))
    /\ StrLE(getEffectiveDate(stat), endDate)
    /\ getEffectiveDate(stat) # endDate

\* effectiveDate >= startDate && effectiveDate <= endDate
InRange(stat, startDate, endDate) ==
    /\ StrLE(startDate, getEffectiveDate(stat))
    /\ StrLE(getEffectiveDate(stat), endDate)

FilterByRange(allStats, startDate, endDate) ==
    SelectSeq(allStats, LAMBDA s : InRange(s, startDate, endDate))

RECURSIVE AddModels(_, _)
\* for (const model of stat.modelsUsed) existing.modelsUsed.add(model):
\* a Set keeps its members in insertion order, each once.
AddModels(have, more) ==
    IF more = <<>> THEN have
    ELSE AddModels(IF more[1] \in Range(have) THEN have
                   ELSE Append(have, more[1]), Tail(more))

\* The aggregate a user's first in-window record creates.
NewAggregate(stat) ==
    [userId              |-> stat.userId,
     inputTokens         |-> stat.inputTokens,
     outputTokens        |-> stat.outputTokens,
     cacheCreationTokens |-> stat.cacheCreationTokens,
     cacheReadTokens     |-> stat.cacheReadTokens,
     totalTokens         |-> stat.totalTokens,
     totalCost           |-> stat.totalCost,
     modelsUsed          |-> AddModels(<<>>, stat.modelsUsed),
     lastSyncedAt        |-> stat.updatedAt]

\* A variant of Accumulate that keeps the first record's updatedAt.
AccumulateKeepFirstSync(existing, stat) ==
    [existing EXCEPT
       !.inputTokens         = @ + stat.inputTokens,
       !.outputTokens        = @ + stat.outputTokens,
       !.cacheCreationTokens = @ + stat.cacheCreationTokens,
       !.cacheReadTokens     = @ + stat.cacheReadTokens,
       !.totalTokens         = @ + stat.totalTokens,
       !.totalCost           = FAdd(@, stat.totalCost),
       !.modelsUsed          = AddModels(@, stat.modelsUsed)]

\* The aggregate after one more record of the same user.
Accumulate(existing, stat) ==
    [existing EXCEPT
       !.inputTokens         = @ + stat.inputTokens,
       !.outputTokens        = @ + stat.outputTokens,
       !.cacheCreationTokens = @ + stat.cacheCreationTokens,
       !.cacheReadTokens     = @ + stat.cacheReadTokens,
       !.totalTokens         = @ + stat.totalTokens,
       !.totalCost           = FAdd(@, stat.totalCost),
       !.modelsUsed          = AddModels(@, stat.modelsUsed),
       !.lastSyncedAt        = IF stat.updatedAt > @ THEN stat.updatedAt ELSE @]

RECURSIVE AggregateInto(_, _)
\* The userAggregates Map (in insertion order) after the loop over stats.
AggregateInto(acc, stats) ==
    IF stats = <<>> THEN acc
    ELSE LET stat == stats[1]
             hit  == {j \in 1..Len(acc) : acc[j].userId = stat.userId}
         IN  AggregateInto(
               IF hit = {} THEN Append(acc, NewAggregate(stat))
               ELSE LET j == CHOOSE k \in hit : TRUE
                    IN  [acc EXCEPT ![j] = Accumulate(acc[j], stat)],
               Tail(stats))

Aggregate(allStats, startDate, endDate) ==
    AggregateInto(<<>>, FilterByRange(allStats, startDate, endDate))

\* teamId && user.slackTeamId !== teamId
TeamExcludes(teamId, user) ==
    /\ teamId # Absent
    /\ teamId[1] # ""
    /\ user.slackTeamId # teamId[1]

\* The entry pushed for one aggregate whose user document was found.
Entry(agg, user) ==
    [userId              |-> agg.userId,
     displayName         |-> user.displayName,
     slackUserId         |-> user.slackUserId,
     inputTokens         |-> agg.inputTokens,
     outputTokens        |-> agg.outputTokens,
     cacheCreationTokens |-> agg.cacheCreationTokens,
     cacheReadTokens     |-> agg.cacheReadTokens,
     totalTokens         |-> agg.totalTokens,
     totalCost           |-> agg.totalCost,
     modelsUsed          |-> agg.modelsUsed,
     rank                |-> 0,
     rankChange          |-> RankNull,
     lastSyncedAt        |-> agg.lastSyncedAt]

RECURSIVE DecorateUntilMissing(_, _)
\* A variant of Decorate that gives up at the first missing user.
DecorateUntilMissing(aggs, teamId) ==
    IF aggs = <<>> THEN <<>>
    ELSE LET found == GetUser(aggs[1].userId)
         IN  IF found = {} THEN <<>>
             ELSE LET user == CHOOSE u \in found : TRUE
                      rest == DecorateUntilMissing(Tail(aggs), teamId)
                  IN  IF TeamExcludes(teamId, user) THEN rest
                      ELSE <<Entry(aggs[1], user)>> \o rest

RECURSIVE Decorate(_, _)
\* The loop over userAggregates: skip a missing user or another team's user.
Decorate(aggs, teamId) ==
    IF aggs = <<>> THEN <<>>
    ELSE LET found == GetUser(aggs[1].userId)
             rest  == Decorate(Tail(aggs), teamId)
         IN  IF found = {} THEN rest
             ELSE LET user == CHOOSE u \in found : TRUE
                  IN  IF TeamExcludes(teamId, user) THEN rest
                      ELSE <<Entry(aggs[1], user)>> \o rest

RECURSIVE InsertByCost(_, _)
\* Insert e after every entry that costs at least as much (keeps ties in order).
InsertByCost(sorted, e) ==
    IF sorted = <<>> THEN <<e>>
    ELSE IF sorted[1].totalCost >= e.totalCost
         THEN <<sorted[1]>> \o InsertByCost(Tail(sorted), e)
         ELSE <<e>> \o sorted

RECURSIVE SortFrom(_, _)
SortFrom(sorted, rest) ==
    IF rest = <<>> THEN sorted
    ELSE SortFrom(InsertByCost(sorted, rest[1]), Tail(rest))

\* A variant of SortByCostDesc that leaves the entries as they are.
SortByCostUnsorted(entries) == entries

\* A variant of SortByCostDesc that puts the smallest cost first.
SortByCostAscending(entries) ==
    [i \in 1..Len(entries) |->
        SortFrom(<<>>, entries)[Len(entries) + 1 - i]]

RECURSIVE InsertAheadOfTies(_, _)
InsertAheadOfTies(sorted, e) ==
    IF sorted = <<>> THEN <<e>>
    ELSE IF sorted[1].totalCost > e.totalCost
         THEN <<sorted[1]>> \o InsertAheadOfTies(Tail(sorted), e)
         ELSE <<e>> \o sorted

RECURSIVE SortTiesLatestFirstFrom(_, _)
SortTiesLatestFirstFrom(sorted, rest) ==
    IF rest = <<>> THEN sorted
    ELSE SortTiesLatestFirstFrom(InsertAheadOfTies(sorted, rest[1]),
                                 Tail(rest))

\* A variant of SortByCostDesc that is descending and puts, among entries of
\* equal cost, the one that came last first.
SortByCostTiesLatestFirst(entries) == SortTiesLatestFirstFrom(<<>>, entries)

\* leaderboard.sort((a, b) => b.totalCost - a.totalCost): stable, descending.
SortByCostDesc(entries) == SortFrom(<<>>, entries)

\* entry.rank = index + 1
AssignRanks(entries) ==
    [i \in 1..Len(entries) |-> [entries[i] EXCEPT !.rank = i]]

\* A variant of buildLeaderboardFromStats that ranks every user first and
\* filters by team afterwards.
buildLeaderboardRankedFirst(allStats, startDate, endDate, teamId) ==
    SelectSeq(AssignRanks(SortByCostDesc(
                  Decorate(Aggregate(allStats, startDate, endDate), Absent))),
              LAMBDA e : \A u \in GetUser(e.userId) : ~ TeamExcludes(teamId, u))

buildLeaderboardFromStats(allStats, startDate, endDate, teamId) ==
    AssignRanks(SortByCostDesc(
        Decorate(Aggregate(allStats, startDate, endDate), teamId)))

\* previousRankMap.get(userId): the rank a later entry set overwrites an earlier.
PreviousRank(previous, userId) ==
    LET hit == {j \in 1..Len(previous) : previous[j].userId = userId}
    IN  IF hit = {} THEN Absent
        ELSE Some(previous[CHOOSE j \in hit : \A k \in hit : k <= j].rank)

\* A variant of RankChange with the difference the other way round.
RankChangeReversed(entry, previous) ==
    LET prevRank == PreviousRank(previous, entry.userId)
    IN  IF prevRank = Absent THEN RankNew
        ELSE RankDelta(entry.rank - prevRank[1])

\* "new" without a previous rank, else previousRank - entry.rank.
RankChange(entry, previous) ==
    LET prevRank == PreviousRank(previous, entry.userId)
    IN  IF prevRank = Absent THEN RankNew
        ELSE RankDelta(prevRank[1] - entry.rank)

computeRankChanges(current, previous) ==
    [i \in 1..Len(current) |->
        [current[i] EXCEPT !.rankChange = RankChange(current[i], previous)]]

RECURSIVE SummaryFrom(_, _, _, _)
SummaryFrom(acc, stats, startDate, endDate) ==
    IF stats = <<>> THEN acc
    ELSE SummaryFrom(
           IF InRange(stats[1], startDate, endDate)
           THEN [totalTokens |-> acc.totalTokens + stats[1].totalTokens,
                 totalCost   |-> FAdd(acc.totalCost, stats[1].totalCost),
                 uniqueUsers |-> acc.uniqueUsers \cup {stats[1].userId}]
           ELSE acc,
           Tail(stats), startDate, endDate)

SummaryOf(acc, period) ==
    [totalTokens |-> acc.totalTokens,
     totalCost   |-> acc.totalCost,
     totalUsers  |-> Cardinality(acc.uniqueUsers),
     period      |-> period]

computeStatsSummary(allStats, startDate, endDate, period) ==
    SummaryOf(SummaryFrom([totalTokens |-> 0, totalCost |-> 0,
                           uniqueUsers |-> {}], allStats, startDate, endDate),
              period)

\* A variant of ApplyLimit that slices with every limit given, 0 included.
ApplyLimitAlways(entries, limit) ==
    IF limit = Absent THEN entries ELSE Slice(entries, limit[1])

\* args.limit ? current.slice(0, args.limit) : current
ApplyLimit(entries, limit) ==
    IF limit = Absent \/ limit[1] = 0 THEN entries ELSE Slice(entries, limit[1])

----------------------------------------------------------------------------
(* The calls and what they leave unchanged *)

NoCall == [op |-> "none"]

\* No mutation is running.
NoTxn == [op |-> "none"]

\* A query runs for a caller that is waiting for no other result; it reads the
\* tables and the clock and writes neither.
Returns(c, r) ==
    /\ call = NoCall
    /\ call' = c
    /\ response' = r
    /\ UNCHANGED <<nowDay, dailyStats, users, insightsReports, apiKeys, txn>>

\* A query that counted its scans of dailyStats returns its value; the count
\* stays with the record of the call.
Finishes(Called(_), run) == Returns(Called(run.scans), run.value)

\* The caller takes the result; the next request starts from the same tables.
Respond ==
    /\ call # NoCall
    /\ call' = NoCall
    /\ response' = NoCall
    /\ UNCHANGED <<nowDay, dailyStats, users, insightsReports, apiKeys, txn>>

\* A variant of CollectStats that sees the writes of a running mutation.
CollectStatsUncommitted == IF txn = NoTxn THEN dailyStats ELSE txn.view

\* ctx.db.query("dailyStats").collect() in a query: the committed table.
CollectStats == dailyStats

\* fetchAllStats(ctx): one more scan of the table.
fetchAllStats(scans) == [allStats |-> CollectStats, scans |-> scans + 1]

\* The window resolver applied to one period.
ResolvePeriod(period) ==
    Returns([op |-> "getPeriodDateRanges", period |-> period],
            getPeriodDateRanges(period))

----------------------------------------------------------------------------
(* The leaderboard queries *)

\* leaderboard.map((entry) => ({...entry, hasReport: reportUserIds.has(..)}))
WithReports(entries) ==
    [i \in 1..Len(entries) |->
        [f \in DOMAIN entries[i] \cup {"hasReport"} |->
            IF f = "hasReport" THEN entries[i].userId \in insightsReports
            ELSE entries[i][f]]]

\* A variant of WithRankChanges that ignores hasPrevious.
WithRankChangesAlways(allStats, ranges, current) ==
    computeRankChanges(current,
        buildLeaderboardFromStats(allStats, ranges.previousStart,
                                  ranges.previousEnd, Absent))

\* if (ranges.hasPrevious) computeRankChanges(current, previous)
WithRankChanges(allStats, ranges, current) ==
    IF ranges.hasPrevious
    THEN computeRankChanges(current,
             buildLeaderboardFromStats(allStats, ranges.previousStart,
                                       ranges.previousEnd, Absent))
    ELSE current

\* A variant of pageData that scans the table again for the previous window.
pageDataScanAgain(fetched, ranges, period, limit) ==
    [scans |-> fetchAllStats(fetched.scans).scans,
     value |->
        [statsSummary |-> computeStatsSummary(fetched.allStats,
                              ranges.currentStart, ranges.currentEnd, period),
         leaderboard  |-> WithReports(ApplyLimit(
                              WithRankChanges(
                                  fetchAllStats(fetched.scans).allStats, ranges,
                                  buildLeaderboardFromStats(fetched.allStats,
                                      ranges.currentStart, ranges.currentEnd,
                                      Absent)),
                              limit))]]

\* getPageData after its fetch: the scans it made and what it returns.
pageData(fetched, ranges, period, limit) ==
    [scans |-> fetched.scans,
     value |->
        [statsSummary |-> computeStatsSummary(fetched.allStats,
                              ranges.currentStart, ranges.currentEnd, period),
         leaderboard  |-> WithReports(ApplyLimit(
                              WithRankChanges(fetched.allStats, ranges,
                                  buildLeaderboardFromStats(fetched.allStats,
                                      ranges.currentStart, ranges.currentEnd,
                                      Absent)),
                              limit))]]

getPageData(period, limit) ==
    pageData(fetchAllStats(0), getPeriodDateRanges(period), period, limit)

\* getDailyLeaderboard / getWeeklyLeaderboard / getMonthlyLeaderboard differ
\* only in the two day counts handed to getDaysAgo.
rollingLeaderboard(fetched, days, previousDays, teamId, limit) ==
    [scans |-> fetched.scans,
     value |->
        ApplyLimit(
            computeRankChanges(
                buildLeaderboardFromStats(fetched.allStats, getDaysAgo(days),
                                          getTomorrow, teamId),
                buildLeaderboardFromStats(fetched.allStats,
                                          getDaysAgo(previousDays),
                                          getDaysAgo(days), teamId)),
            limit)]

getDailyLeaderboard(teamId, limit) ==
    rollingLeaderboard(fetchAllStats(0), 1, 3, teamId, limit)

getWeeklyLeaderboard(teamId, limit) ==
    rollingLeaderboard(fetchAllStats(0), 7, 14, teamId, limit)

getMonthlyLeaderboard(teamId, limit) ==
    rollingLeaderboard(fetchAllStats(0), 30, 60, teamId, limit)

\* buildLeaderboard(ctx, startDate, endDate, teamId): fetch, then build.
buildLeaderboard(startDate, endDate, teamId) ==
    buildLeaderboardFromStats(fetchAllStats(0).allStats, startDate, endDate,
                              teamId)

getAllTimeLeaderboard(teamId, limit) ==
    ApplyLimit(buildLeaderboard(Epoch2000, getTomorrow, teamId), limit)

getLeaderboardByDateRange(startDate, endDate, teamId, limit) ==
    ApplyLimit(buildLeaderboard(startDate, endDate, teamId), limit)

\* The periods of getUserRank (its validator spells the last one "allTime").
UserRankPeriods == {"daily", "weekly", "monthly", "allTime"}

\* The switch of getUserRank: the first day of the period's window.
userRankStart(period) ==
    CASE period = "daily" -> getDaysAgo(1)
      [] period = "weekly" -> getDaysAgo(7)
      [] period = "monthly" -> getDaysAgo(30)
      [] period = "allTime" -> Epoch2000

\* What getUserRank returns for a user that does not exist.
NullResult == [isNull |-> TRUE]

\* The seven fields of stats, copied from the user's entry.
UserRankStats(entry) ==
    [inputTokens         |-> entry.inputTokens,
     outputTokens        |-> entry.outputTokens,
     cacheCreationTokens |-> entry.cacheCreationTokens,
     cacheReadTokens     |-> entry.cacheReadTokens,
     totalTokens         |-> entry.totalTokens,
     totalCost           |-> entry.totalCost,
     modelsUsed          |-> entry.modelsUsed]

\* leaderboard.find((entry) => entry.userId === args.userId), then the result.
userRankIn(leaderboard, userId) ==
    LET hit == {i \in 1..Len(leaderboard) : leaderboard[i].userId = userId}
    IN  IF hit = {}
        THEN [isNull |-> FALSE, rank |-> Absent,
              totalParticipants |-> Len(leaderboard), stats |-> Absent]
        ELSE LET userEntry == leaderboard[CHOOSE i \in hit :
                                              \A j \in hit : i <= j]
             IN  [isNull |-> FALSE, rank |-> Some(userEntry.rank),
                  totalParticipants |-> Len(leaderboard),
                  stats |-> Some(UserRankStats(userEntry))]

\* A variant of UserRankTeam that passes no team.
UserRankNoTeam(user) == Absent

\* The team getUserRank passes to buildLeaderboard: user.slackTeamId.
UserRankTeam(user) == Some(user.slackTeamId)

getUserRank(userId, period) ==
    LET found == GetUser(userId)
    IN  IF found = {} THEN NullResult
        ELSE userRankIn(buildLeaderboard(userRankStart(period), getTomorrow,
                            UserRankTeam(CHOOSE u \in found : TRUE)),
                        userId)

\* The current window of getStatsSummary (its own switch, lines 863-880).
summaryOver(ranges, period) ==
    computeStatsSummary(CollectStats, ranges.currentStart, ranges.currentEnd,
                        period)

getStatsSummary(period) == summaryOver(getPeriodDateRanges(period), period)

GetPageData(period, limit) ==
    Finishes(LAMBDA n : [op |-> "getPageData", period |-> period,
                         teamId |-> Absent, limit |-> limit, scans |-> n],
             getPageData(period, limit))

GetDailyLeaderboard(teamId, limit) ==
    Finishes(LAMBDA n : [op |-> "getDailyLeaderboard", period |-> "daily",
                         teamId |-> teamId, limit |-> limit, scans |-> n],
             getDailyLeaderboard(teamId, limit))

GetWeeklyLeaderboard(teamId, limit) ==
    Finishes(LAMBDA n : [op |-> "getWeeklyLeaderboard", period |-> "weekly",
                         teamId |-> teamId, limit |-> limit, scans |-> n],
             getWeeklyLeaderboard(teamId, limit))

GetMonthlyLeaderboard(teamId, limit) ==
    Finishes(LAMBDA n : [op |-> "getMonthlyLeaderboard", period |-> "monthly",
                         teamId |-> teamId, limit |-> limit, scans |-> n],
             getMonthlyLeaderboard(teamId, limit))

GetAllTimeLeaderboard(teamId, limit) ==
    Returns([op |-> "getAllTimeLeaderboard", period |-> "alltime",
             teamId |-> teamId, limit |-> limit],
            getAllTimeLeaderboard(teamId, limit))

GetLeaderboardByDateRange(startDate, endDate, teamId, limit) ==
    Returns([op |-> "getLeaderboardByDateRange", startDate |-> startDate,
             endDate |-> endDate, teamId |-> teamId, limit |-> limit],
            getLeaderboardByDateRange(startDate, endDate, teamId, limit))

GetUserRank(userId, period) ==
    Returns([op |-> "getUserRank", userId |-> userId, period |-> period],
            getUserRank(userId, period))

GetStatsSummary(period) ==
    Returns([op |-> "getStatsSummary", period |-> period],
            getStatsSummary(period))

----------------------------------------------------------------------------
(* Chart buckets *)

\* Date.getUTCDay() of a day number: 0 = Sunday .. 6 = Saturday.
UTCDay(day) == (day + 4) % 7

\* day === 0 ? -6 : 1 - day
MondayOffset(weekday) == IF weekday = 0 THEN -6 ELSE 1 - weekday

ISOWeekMondayOf(day) == FormatDate(day + MondayOffset(UTCDay(day)))

\* A variant of getISOWeekMonday without the case of Sunday: 1 - day always.
getWeekMondayAfterSunday(dateStr) ==
    FormatDate(ParseDate(dateStr) + 1 - UTCDay(ParseDate(dateStr)))

getISOWeekMonday(dateStr) == ISOWeekMondayOf(ParseDate(dateStr))

\* dateStr.slice(0, 7) + "-01"
getMonthStart(dateStr) == SubSeq(dateStr, 1, Min(7, Len(dateStr))) \o <<45, 48, 49>>

getBucketKey(dateStr, bucketBy) ==
    CASE bucketBy = "day" -> dateStr
      [] bucketBy = "week" -> getISOWeekMonday(dateStr)
      [] bucketBy = "month" -> getMonthStart(dateStr)

BucketModes == {"day", "week", "month"}

TimeRanges == {"30d", "90d", "6m", "1y", "all"}

\* The number of days of a time range; Absent is null (no limit).
getTimeRangeDays(timeRange) ==
    CASE timeRange = "30d" -> Some(30)
      [] timeRange = "90d" -> Some(90)
      [] timeRange = "6m" -> Some(180)
      [] timeRange = "1y" -> Some(365)
      [] timeRange = "all" -> Absent

getBucketDateRange(bucketBy) ==
    CASE bucketBy = "day" ->
           [startDate |-> getDaysAgo(30), endDate |-> getTomorrow]
      [] bucketBy = "week" ->
           [startDate |-> getDaysAgo(84), endDate |-> getTomorrow]
      [] bucketBy = "month" ->
           [startDate |-> getDaysAgo(365), endDate |-> getTomorrow]

\* The period switch of the chart queries: all-time charts show 90 days.
ChartPeriodDays(period) ==
    CASE period = "daily" -> 1
      [] period = "weekly" -> 7
      [] period = "monthly" -> 30
      [] period = "alltime" -> 90

TimeRangeStart(days) ==
    IF days # Absent THEN getDaysAgo(days[1]) ELSE Epoch2000

\* The window of a chart query: timeRange first, then bucketBy, then period.
ChartRange(period, bucketBy, timeRange) ==
    IF timeRange # Absent
    THEN [startDate |-> TimeRangeStart(getTimeRangeDays(timeRange[1])),
          endDate   |-> getTomorrow]
    ELSE IF bucketBy # Absent THEN getBucketDateRange(bucketBy[1])
    ELSE [startDate |-> getDaysAgo(ChartPeriodDays(period)),
          endDate   |-> getTomorrow]

\* args.bucketBy && args.bucketBy !== "day"
Coarsens(bucketBy) == bucketBy # Absent /\ bucketBy[1] # "day"

----------------------------------------------------------------------------
(* getDailyUsageChart *)

\* Position of the key in a Map kept as a sequence of entries, 0 if missing.
KeyIndex(map, key) ==
    IF \E j \in 1..Len(map) : map[j].key = key
    THEN CHOOSE j \in 1..Len(map) : map[j].key = key
    ELSE 0

\* What one record adds to its date's aggregate.
StatItem(stat) ==
    [key         |-> getEffectiveDate(stat),
     totalTokens |-> stat.totalTokens,
     totalCost   |-> stat.totalCost,
     uniqueUsers |-> {stat.userId}]

\* existing.totalTokens += ..; existing.totalCost += ..; uniqueUsers.add(..)
MergeItem(existing, item) ==
    [existing EXCEPT !.totalTokens = @ + item.totalTokens,
                     !.totalCost   = FAdd(@, item.totalCost),
                     !.uniqueUsers = @ \cup item.uniqueUsers]

\* map.get(key) ? merge : map.set(key, item), with j the key's position.
PutItem(map, j, item) ==
    IF j = 0 THEN Append(map, item)
    ELSE [map EXCEPT ![j] = MergeItem(map[j], item)]

RECURSIVE dailyAggregatesFrom(_, _)
\* The dailyAggregates Map after the loop over the filtered records.
dailyAggregatesFrom(map, stats) ==
    IF stats = <<>> THEN map
    ELSE dailyAggregatesFrom(
           PutItem(map, KeyIndex(map, getEffectiveDate(stats[1])),
                   StatItem(stats[1])),
           Tail(stats))

RECURSIVE bucketAggregatesFrom(_, _, _)
\* The finalAggregates Map after the loop over dailyAggregates' entries.
bucketAggregatesFrom(map, daily, bucketBy) ==
    IF daily = <<>> THEN map
    ELSE bucketAggregatesFrom(
           PutItem(map, KeyIndex(map, getBucketKey(daily[1].key, bucketBy)),
                   [daily[1] EXCEPT !.key = getBucketKey(@, bucketBy)]),
           Tail(daily), bucketBy)

finalAggregates(daily, bucketBy) ==
    IF Coarsens(bucketBy) THEN bucketAggregatesFrom(<<>>, daily, bucketBy[1])
    ELSE daily

\* One chart point: the cost rounded to two decimals.
ChartPoint(data) ==
    [date        |-> data.key,
     totalTokens |-> data.totalTokens,
     totalCost   |-> Round2(data.totalCost),
     activeUsers |-> Cardinality(data.uniqueUsers)]

RECURSIVE InsertByDate(_, _)
\* Insert p after every point whose date is not later.
InsertByDate(sorted, p) ==
    IF sorted = <<>> THEN <<p>>
    ELSE IF StrLE(sorted[1].date, p.date)
         THEN <<sorted[1]>> \o InsertByDate(Tail(sorted), p)
         ELSE <<p>> \o sorted

RECURSIVE SortByDateFrom(_, _)
SortByDateFrom(sorted, rest) ==
    IF rest = <<>> THEN sorted
    ELSE SortByDateFrom(InsertByDate(sorted, rest[1]), Tail(rest))

\* .sort((a, b) => a.date.localeCompare(b.date))
SortByDate(points) == SortByDateFrom(<<>>, points)

ChartPoints(map) == [i \in 1..Len(map) |-> ChartPoint(map[i])]

usageChart(allStats, range, bucketBy) ==
    SortByDate(ChartPoints(finalAggregates(
        dailyAggregatesFrom(<<>>,
            FilterByRange(allStats, range.startDate, range.endDate)),
        bucketBy)))

getDailyUsageChart(period, bucketBy, timeRange) ==
    usageChart(CollectStats, ChartRange(period, bucketBy, timeRange), bucketBy)

GetDailyUsageChart(period, bucketBy, timeRange) ==
    Returns([op |-> "getDailyUsageChart", period |-> period,
             bucketBy |-> bucketBy, timeRange |-> timeRange],
            getDailyUsageChart(period, bucketBy, timeRange))

----------------------------------------------------------------------------
(* getUserDailyUsageChart *)

\* args.topN ?? 10
DefaultTopN == 10

\* .slice(0, 39)
MaxNameLen == 39

\* "unknown", "User " and "date" as code units.
Unknown == <<117, 110, 107, 110, 111, 119, 110>>

UserPrefix == <<85, 115, 101, 114, 32>>

DateKey == <<100, 97, 116, 101>>

\* [a-zA-Z0-9_-]
IsNameChar(c) ==
    \/ (97 <= c /\ c <= 122)
    \/ (65 <= c /\ c <= 90)
    \/ (48 <= c /\ c <= 57)
    \/ c = 95
    \/ c = 45

OrUnknown(name) == IF name = <<>> THEN Unknown ELSE name

\* name.replace(/[^a-zA-Z0-9_-]/g, "").slice(0, 39) || "unknown"
Sanitize(name) ==
    OrUnknown(Slice(SelectSeq(name, IsNameChar), MaxNameLen))

\* user.displayName ?? `User ${user.slackUserId.slice(-4)}`
RawName(user) ==
    IF user.displayName # Absent THEN user.displayName[1]
    ELSE UserPrefix \o SliceLast(user.slackUserId, 4)

\* userNames.get(userId) ?? "unknown"
NameOf(userId) ==
    IF GetUser(userId) = {} THEN Unknown
    ELSE Sanitize(RawName(CHOOSE u \in GetUser(userId) : TRUE))

\* userTotals.set(userId, (userTotals.get(userId) ?? 0) + stat.totalCost)
PutTotal(map, j, stat) ==
    IF j = 0 THEN Append(map, [key |-> stat.userId,
                               totalCost |-> FAdd(0, stat.totalCost)])
    ELSE [map EXCEPT ![j].totalCost = FAdd(@, stat.totalCost)]

RECURSIVE userTotalsFrom(_, _)
userTotalsFrom(map, stats) ==
    IF stats = <<>> THEN map
    ELSE userTotalsFrom(PutTotal(map, KeyIndex(map, stats[1].userId), stats[1]),
                        Tail(stats))

Keys(map) == [i \in 1..Len(map) |-> map[i].key]

\* A variant of topUserIdsOf that takes the first maxUsers users met.
topUserIdsFirstMet(filteredStats, maxUsers) ==
    Keys(Slice(userTotalsFrom(<<>>, filteredStats), maxUsers))

\* The ids of the maxUsers users with the largest total cost, largest first.
topUserIdsOf(filteredStats, maxUsers) ==
    Keys(Slice(SortByCostDesc(userTotalsFrom(<<>>, filteredStats)), maxUsers))

\* dayMap.set(userId, (dayMap.get(userId) ?? 0) + cost)
AddCost(dayMap, userId, cost) ==
    [u \in DOMAIN dayMap \cup {userId} |->
        IF u # userId THEN dayMap[u]
        ELSE IF u \in DOMAIN dayMap THEN FAdd(dayMap[u], cost)
        ELSE FAdd(0, cost)]

PutDayCost(map, j, key, userId, cost) ==
    IF j = 0 THEN Append(map, [key |-> key, costs |-> AddCost(<<>>, userId, cost)])
    ELSE [map EXCEPT ![j].costs = AddCost(@, userId, cost)]

RECURSIVE dateUserCostsFrom(_, _, _)
\* The dateUserCosts Map after the loop over the filtered records.
dateUserCostsFrom(map, stats, topUserIdSet) ==
    IF stats = <<>> THEN map
    ELSE dateUserCostsFrom(
           IF stats[1].userId \notin topUserIdSet THEN map
           ELSE PutDayCost(map, KeyIndex(map, getEffectiveDate(stats[1])),
                           getEffectiveDate(stats[1]), stats[1].userId,
                           stats[1].totalCost),
           Tail(stats), topUserIdSet)

\* for (const [userId, cost] of userCostMap) bucketMap.set(userId, .. + cost)
MergeCosts(bucketMap, userCostMap) ==
    [u \in DOMAIN bucketMap \cup DOMAIN userCostMap |->
        IF u \notin DOMAIN userCostMap THEN bucketMap[u]
        ELSE IF u \in DOMAIN bucketMap THEN FAdd(bucketMap[u], userCostMap[u])
        ELSE FAdd(0, userCostMap[u])]

PutBucketCosts(map, j, key, userCostMap) ==
    IF j = 0 THEN Append(map, [key |-> key, costs |-> MergeCosts(<<>>, userCostMap)])
    ELSE [map EXCEPT ![j].costs = MergeCosts(@, userCostMap)]

RECURSIVE bucketUserCostsFrom(_, _, _)
bucketUserCostsFrom(map, daily, bucketBy) ==
    IF daily = <<>> THEN map
    ELSE bucketUserCostsFrom(
           PutBucketCosts(map, KeyIndex(map, getBucketKey(daily[1].key, bucketBy)),
                          getBucketKey(daily[1].key, bucketBy), daily[1].costs),
           Tail(daily), bucketBy)

finalDateUserCosts(daily, bucketBy) ==
    IF Coarsens(bucketBy) THEN bucketUserCostsFrom(<<>>, daily, bucketBy[1])
    ELSE daily

RECURSIVE InsertByKey(_, _)
InsertByKey(sorted, e) ==
    IF sorted = <<>> THEN <<e>>
    ELSE IF StrLE(sorted[1].key, e.key)
         THEN <<sorted[1]>> \o InsertByKey(Tail(sorted), e)
         ELSE <<e>> \o sorted

RECURSIVE SortByKeyFrom(_, _)
SortByKeyFrom(sorted, rest) ==
    IF rest = <<>> THEN sorted
    ELSE SortByKeyFrom(InsertByKey(sorted, rest[1]), Tail(rest))

\* Array.from(finalDateUserCosts.keys()).sort(): by code unit, ascending.
SortByKey(map) == SortByKeyFrom(<<>>, map)

\* entry[k] = v on a JavaScript object, kept as a function of its keys.
SetKey(entry, k, v) ==
    [x \in DOMAIN entry \cup {k} |-> IF x = k THEN v ELSE entry[x]]

\* dayMap.get(userId) ?? 0
CostOrZero(dayMap, userId) ==
    IF userId \in DOMAIN dayMap THEN dayMap[userId] ELSE 0

RECURSIVE entryFrom(_, _, _)
\* for (const userId of topUserIds) entry[name] = Math.round(cost * 100) / 100
entryFrom(entry, userIds, dayMap) ==
    IF userIds = <<>> THEN entry
    ELSE entryFrom(SetKey(entry, NameOf(userIds[1]),
                          Round2(CostOrZero(dayMap, userIds[1]))),
                   Tail(userIds), dayMap)

\* const entry = { date }, then one key per top user.
ChartEntry(bucket, topUserIds) ==
    entryFrom(SetKey(<<>>, DateKey, bucket.key), topUserIds, bucket.costs)

ChartUsers(topUserIds) ==
    [i \in 1..Len(topUserIds) |->
        [userId |-> topUserIds[i], displayName |-> NameOf(topUserIds[i])]]

ChartEntries(sorted, topUserIds) ==
    [i \in 1..Len(sorted) |-> ChartEntry(sorted[i], topUserIds)]

userChartOf(filteredStats, topUserIds, bucketBy) ==
    [users     |-> ChartUsers(topUserIds),
     chartData |-> ChartEntries(
                     SortByKey(finalDateUserCosts(
                         dateUserCostsFrom(<<>>, filteredStats, Range(topUserIds)),
                         bucketBy)),
                     topUserIds)]

userChartIn(filteredStats, maxUsers, bucketBy) ==
    userChartOf(filteredStats, topUserIdsOf(filteredStats, maxUsers), bucketBy)

userChart(allStats, range, maxUsers, bucketBy) ==
    userChartIn(FilterByRange(allStats, range.startDate, range.endDate),
                maxUsers, bucketBy)

getUserDailyUsageChart(period, topN, bucketBy, timeRange) ==
    userChart(CollectStats, ChartRange(period, bucketBy, timeRange),
              IF topN = Absent THEN DefaultTopN ELSE topN[1], bucketBy)

GetUserDailyUsageChart(period, topN, bucketBy, timeRange) ==
    Returns([op |-> "getUserDailyUsageChart", period |-> period,
             topN |-> topN, bucketBy |-> bucketBy, timeRange |-> timeRange],
            getUserDailyUsageChart(period, topN, bucketBy, timeRange))

----------------------------------------------------------------------------
(* MemberUsageChart.tsx: the chart of the top users *)

\* toLocaleDateString("en-US", { month: "short" }) for the months 1..12.
MonthShort ==
    << <<74, 97, 110>>, <<70, 101, 98>>, <<77, 97, 114>>, <<65, 112, 114>>,
       <<77, 97, 121>>, <<74, 117, 110>>, <<74, 117, 108>>, <<65, 117, 103>>,
       <<83, 101, 112>>, <<79, 99, 116>>, <<78, 111, 118>>, <<68, 101, 99>> >>

\* The day of the month as toLocaleDateString writes it: no leading zero.
DayNumeric(d) == IF d < 10 THEN <<Digit(d)>> ELSE Pad2(d)

\* "Dec '24" for a month bucket, "Dec 31" otherwise.
LabelOf(c, bucket) ==
    IF bucket = "month"
    THEN MonthShort[c.m] \o <<32, 39>> \o Pad2(c.y % 100)
    ELSE MonthShort[c.m] \o <<32>> \o DayNumeric(c.d)

formatDateLabel(dateStr, bucket) ==
    LabelOf(CivilFromDays(ParseDate(dateStr)), bucket)

\* "dateLabel" as code units.
DateLabelKey == <<100, 97, 116, 101, 76, 97, 98, 101, 108>>

\* chartData.map((item) => ({ ...item, dateLabel: formatDateLabel(...) }))
displayData(chartData, bucket) ==
    [i \in 1..Len(chartData) |->
        SetKey(chartData[i], DateLabelKey,
               formatDateLabel(chartData[i][DateKey], bucket))]

\* item[key] ?? 0, and running[key] ?? 0
ValOrZero(item, key) == IF key \in DOMAIN item THEN item[key] ELSE 0

\* running[key] = sum; newItem[key] = Math.round(running[key] * 100) / 100
PutRunning(acc, key, sum) ==
    [running |-> SetKey(acc.running, key, sum),
     newItem |-> SetKey(acc.newItem, key, Round2(sum))]

\* running[key] = (running[key] ?? 0) + val
AddRunning(acc, key, val) ==
    PutRunning(acc, key, FAdd(ValOrZero(acc.running, key), val))

RECURSIVE runningOver(_, _, _)
\* for (const user of users): one addition per listed user, in list order.
runningOver(acc, item, userList) ==
    IF userList = <<>> THEN acc
    ELSE runningOver(AddRunning(acc, userList[1].displayName,
                                ValOrZero(item, userList[1].displayName)),
                     item, Tail(userList))

RECURSIVE cumulativeFrom(_, _, _, _)
\* displayData.map(...) with the running totals carried from item to item.
cumulativeFrom(out, acc, items, userList) ==
    IF items = <<>> THEN out
    ELSE cumulativeFrom(
           Append(out, runningOver([running |-> acc.running,
                                    newItem |-> items[1]],
                                   items[1], userList).newItem),
           runningOver([running |-> acc.running, newItem |-> items[1]],
                       items[1], userList),
           Tail(items), userList)

cumulativeData(items, userList) ==
    cumulativeFrom(<<>>, [running |-> <<>>, newItem |-> <<>>], items, userList)

finalData(data, bucket, cumulative) ==
    IF cumulative
    THEN cumulativeData(displayData(data.chartData, bucket), data.users)
    ELSE displayData(data.chartData, bucket)

\* What the component draws once the query has answered.
chartView(data, bucket, cumulative) ==
    IF data.users = <<>> \/ data.chartData = <<>>
    THEN [view |-> "EmptyState"]
    ELSE [view |-> "chart", users |-> data.users,
          finalData |-> finalData(data, bucket, cumulative)]

memberUsageChart(period, bucket, timeRange, cumulative) ==
    chartView(getUserDailyUsageChart(period, Absent, Some(bucket),
                                     Some(timeRange)),
              bucket, cumulative)

MemberUsageChart(period, bucket, timeRange, cumulative) ==
    Returns([op |-> "MemberUsageChart", period |-> period,
             bucket |-> bucket, timeRange |-> timeRange,
             cumulative |-> cumulative],
            memberUsageChart(period, bucket, timeRange, cumulative))

----------------------------------------------------------------------------
(* stats.ts: the per-user queries *)

\* withIndex("by_user", q => q.eq("userId", userId)).collect()
StatsByUser(allStats, userId) ==
    SelectSeq(allStats, LAMBDA s : s.userId = userId)

\* s.date >= args.startDate && s.date <= args.endDate
InDateRange(s, startDate, endDate) ==
    /\ StrLE(startDate, s.date)
    /\ StrLE(s.date, endDate)

FilterByDate(stats, startDate, endDate) ==
    SelectSeq(stats, LAMBDA s : InDateRange(s, startDate, endDate))

RECURSIVE InsertStatByDate(_, _)
InsertStatByDate(sorted, s) ==
    IF sorted = <<>> THEN <<s>>
    ELSE IF StrLE(sorted[1].date, s.date)
         THEN <<sorted[1]>> \o InsertStatByDate(Tail(sorted), s)
         ELSE <<s>> \o sorted

RECURSIVE SortStatsFrom(_, _)
SortStatsFrom(sorted, rest) ==
    IF rest = <<>> THEN sorted
    ELSE SortStatsFrom(InsertStatByDate(sorted, rest[1]), Tail(rest))

\* filteredStats.sort((a, b) => a.date.localeCompare(b.date))
SortStatsByDate(stats) == SortStatsFrom(<<>>, stats)

userStats(allStats, userId, startDate, endDate) ==
    SortStatsByDate(FilterByDate(StatsByUser(allStats, userId),
                                 startDate, endDate))

getUserStats(userId, startDate, endDate) ==
    userStats(CollectStats, userId, startDate, endDate)

\* The aggregate before any record is added; daysActive is the record count.
EmptyUserAggregate(daysActive) ==
    [inputTokens |-> 0, outputTokens |-> 0, cacheCreationTokens |-> 0,
     cacheReadTokens |-> 0, totalTokens |-> 0, totalCost |-> 0,
     modelsUsed |-> <<>>, daysActive |-> daysActive]

AddToUserAggregate(aggregate, stat) ==
    [aggregate EXCEPT
       !.inputTokens         = @ + stat.inputTokens,
       !.outputTokens        = @ + stat.outputTokens,
       !.cacheCreationTokens = @ + stat.cacheCreationTokens,
       !.cacheReadTokens     = @ + stat.cacheReadTokens,
       !.totalTokens         = @ + stat.totalTokens,
       !.totalCost           = FAdd(@, stat.totalCost),
       !.modelsUsed          = AddModels(@, stat.modelsUsed)]

RECURSIVE UserAggregateFrom(_, _)
UserAggregateFrom(aggregate, stats) ==
    IF stats = <<>> THEN aggregate
    ELSE UserAggregateFrom(AddToUserAggregate(aggregate, stats[1]), Tail(stats))

UserAggregateOf(filteredStats) ==
    UserAggregateFrom(EmptyUserAggregate(Len(filteredStats)), filteredStats)

userAggregateStats(allStats, userId, startDate, endDate) ==
    UserAggregateOf(FilterByDate(StatsByUser(allStats, userId),
                                 startDate, endDate))

getUserAggregateStats(userId, startDate, endDate) ==
    userAggregateStats(CollectStats, userId, startDate, endDate)

GetUserStats(userId, startDate, endDate) ==
    Returns([op |-> "getUserStats", userId |-> userId,
             startDate |-> startDate, endDate |-> endDate],
            getUserStats(userId, startDate, endDate))

GetUserAggregateStats(userId, startDate, endDate) ==
    Returns([op |-> "getUserAggregateStats", userId |-> userId,
             startDate |-> startDate, endDate |-> endDate],
            getUserAggregateStats(userId, startDate, endDate))

----------------------------------------------------------------------------
(* stats.ts: the mutations *)

\* Maximum reasonable values for validation.
MAX_DAILY_TOKENS == 1000000000

\* In dollars.
MAX_DAILY_COST == 100000

\* A dollar amount in the unit the model holds costs in.
Dollars(n) == n * 100 * QuarterCents

\* A variant of validateStatsEntry that accepts every entry.
validateStatsEntryLax(entry) == TRUE

validateStatsEntry(entry) ==
    /\ ~ (\/ entry.inputTokens < 0 \/ entry.outputTokens < 0
          \/ entry.cacheCreationTokens < 0 \/ entry.cacheReadTokens < 0
          \/ entry.totalTokens < 0 \/ entry.totalCost < 0)
    /\ ~ (entry.totalTokens > MAX_DAILY_TOKENS)
    /\ ~ (entry.totalCost > Dollars(MAX_DAILY_COST))

\* The error of validateStatsEntry for an entry that is not valid.
validationError(entry) ==
    IF \/ entry.inputTokens < 0 \/ entry.outputTokens < 0
       \/ entry.cacheCreationTokens < 0 \/ entry.cacheReadTokens < 0
       \/ entry.totalTokens < 0 \/ entry.totalCost < 0
    THEN "Token counts and costs cannot be negative"
    ELSE IF entry.totalTokens > MAX_DAILY_TOKENS
    THEN "Total tokens exceeds maximum allowed"
    ELSE "Total cost exceeds maximum allowed"

\* What a mutation answers when its handler throws: nothing is written.
Threw(message) == [error |-> message]

\* `Invalid stats entry for ${stat.date}: ${validation.error}`
InvalidEntry(stat) ==
    [text |-> "Invalid stats entry for", date |-> stat.date,
     error |-> validationError(stat)]

RECURSIVE RemoveFirst(_, _)
\* ctx.db.delete(stat._id): the table without that document.
RemoveFirst(table, doc) ==
    IF table = <<>> THEN <<>>
    ELSE IF table[1] = doc THEN Tail(table)
         ELSE <<table[1]>> \o RemoveFirst(Tail(table), doc)

\* .withIndex("by_user_date", q => q.eq("userId", ..).eq("date", ..)): the
\* positions of the matching documents.
ByUserDate(table, userId, date) ==
    {k \in 1..Len(table) : table[k].userId = userId /\ table[k].date = date}

\* The document recordDailyStats inserts: it carries no utcDate.
RecordedDoc(args, now) ==
    [userId              |-> args.userId,
     date                |-> args.date,
     utcDate             |-> Absent,
     inputTokens         |-> args.inputTokens,
     outputTokens        |-> args.outputTokens,
     cacheCreationTokens |-> args.cacheCreationTokens,
     cacheReadTokens     |-> args.cacheReadTokens,
     totalTokens         |-> args.totalTokens,
     totalCost           |-> args.totalCost,
     modelsUsed          |-> args.modelsUsed,
     updatedAt           |-> now]

\* ctx.db.patch(existingStats._id, {...}): date and utcDate stay.
PatchedDoc(existing, args, now) ==
    [existing EXCEPT
       !.inputTokens         = args.inputTokens,
       !.outputTokens        = args.outputTokens,
       !.cacheCreationTokens = args.cacheCreationTokens,
       !.cacheReadTokens     = args.cacheReadTokens,
       !.totalTokens         = args.totalTokens,
       !.totalCost           = args.totalCost,
       !.modelsUsed          = args.modelsUsed,
       !.updatedAt           = now]

\* recordDailyStats on a table: the table it leaves and what it returns (the
\* position of the document stands for its _id).  unique() throws when the
\* index holds two documents for the user and date.
recordDailyStatsAt(table, hit, args, now) ==
    IF Cardinality(hit) > 1
    THEN [dailyStats |-> table, value |-> Threw("unique() returned more than one result")]
    ELSE IF hit # {}
    THEN [dailyStats |-> [table EXCEPT ![CHOOSE k \in hit : TRUE] =
                              PatchedDoc(@, args, now)],
          value |-> [id |-> CHOOSE k \in hit : TRUE]]
    ELSE [dailyStats |-> Append(table, RecordedDoc(args, now)),
          value |-> [id |-> Len(table) + 1]]

recordDailyStats(table, args, now) ==
    recordDailyStatsAt(table, ByUserDate(table, args.userId, args.date),
                       args, now)

\* The document batchRecordStats inserts for one entry of args.stats.
InsertedDoc(userId, stat, now) ==
    [userId              |-> userId,
     date                |-> stat.date,
     utcDate             |-> stat.utcDate,
     inputTokens         |-> stat.inputTokens,
     outputTokens        |-> stat.outputTokens,
     cacheCreationTokens |-> stat.cacheCreationTokens,
     cacheReadTokens     |-> stat.cacheReadTokens,
     totalTokens         |-> stat.totalTokens,
     totalCost           |-> stat.totalCost,
     modelsUsed          |-> stat.modelsUsed,
     updatedAt           |-> now]

\* A variant of existingStatsOf that collects only the user's documents for
\* the dates being synced.
existingStatsOfSyncedDates(table, userId, stats) ==
    SelectSeq(table, LAMBDA s :
        /\ s.userId = userId
        /\ \E i \in 1..Len(stats) : stats[i].date = s.date)

\* const existingStats = ... withIndex("by_user", ...).collect()
existingStatsOf(table, userId, stats) == StatsByUser(table, userId)

RECURSIVE DeleteAll(_, _)
\* for (const stat of existingStats) await ctx.db.delete(stat._id)
DeleteAll(table, docs) ==
    IF docs = <<>> THEN table
    ELSE DeleteAll(RemoveFirst(table, docs[1]), Tail(docs))

RECURSIVE InsertAll(_, _, _, _)
\* for (const stat of args.stats) await ctx.db.insert("dailyStats", {...})
InsertAll(table, userId, stats, now) ==
    IF stats = <<>> THEN table
    ELSE InsertAll(Append(table, InsertedDoc(userId, stats[1], now)),
                   userId, Tail(stats), now)

\* The handler after validation, given the documents it collected.
replaceStats(table, userId, stats, now, existingStats) ==
    [dailyStats |-> InsertAll(DeleteAll(table, existingStats),
                              userId, stats, now),
     value      |-> [success  |-> TRUE,
                     deleted  |-> Len(existingStats),
                     inserted |-> Len(stats)]]

\* The entries of the batch that the validation loop would refuse.
InvalidAt(stats) == {i \in 1..Len(stats) : ~ validateStatsEntry(stats[i])}

\* batchRecordStats on a table: the table it leaves and what it returns.  The
\* validation loop throws at the first entry that is not valid.
batchRecordStats(table, userId, stats, now) ==
    IF InvalidAt(stats) # {}
    THEN [dailyStats |-> table,
          value |-> Threw(InvalidEntry(
                        stats[CHOOSE i \in InvalidAt(stats) :
                                  \A j \in InvalidAt(stats) : i <= j]))]
    ELSE replaceStats(table, userId, stats, now,
                      existingStatsOf(table, userId, stats))


\* for (const key of userKeys) await ctx.db.delete(key._id), for every user
\* document a maintenance mutation deletes.
KeysOfKeptUsers(keys, deletedUsers) ==
    SelectSeq(keys, LAMBDA k : \A u \in deletedUsers : u.id # k.userId)

\* A mutation is one transaction: it runs for a caller that waits for no other
\* result, while no other mutation runs, and its writes and its answer appear
\* together.
Commits(c, r, table, userDocs) ==
    /\ call = NoCall
    /\ txn = NoTxn
    /\ call' = c
    /\ response' = r
    /\ dailyStats' = table
    /\ users' = userDocs
    /\ apiKeys' = KeysOfKeptUsers(apiKeys, users \ userDocs)
    /\ UNCHANGED <<nowDay, insightsReports, txn>>

\* A mutation that writes dailyStats only.
Applies(c, result) == Commits(c, result.value, result.dailyStats, users)

RecordDailyStats(args, now) ==
    Applies([op |-> "recordDailyStats", userId |-> args.userId,
             date |-> args.date, now |-> now],
            recordDailyStats(dailyStats, args, now))

BatchRecordStats(userId, stats, now) ==
    Applies([op |-> "batchRecordStats", userId |-> userId, stats |-> stats,
             now |-> now],
            batchRecordStats(dailyStats, userId, stats, now))

\* batchRecordStats up to the collect of the user's documents.  The writes
\* that follow go to the transaction's own view of the table.
BatchStart(userId, stats, now) ==
    /\ txn = NoTxn
    /\ call = NoCall
    /\ \A i \in 1..Len(stats) : validateStatsEntry(stats[i])
    /\ txn' = [op       |-> "batchRecordStats",
               userId   |-> userId,
               stats    |-> stats,
               now      |-> now,
               existing |-> existingStatsOf(dailyStats, userId, stats),
               view     |-> dailyStats,
               deleted  |-> 0,
               inserted |-> 0]
    /\ UNCHANGED <<nowDay, dailyStats, users, insightsReports, apiKeys, call,
                   response>>

\* for (const stat of existingStats) await ctx.db.delete(stat._id): one turn.
BatchDelete ==
    /\ txn.op = "batchRecordStats"
    /\ txn.deleted < Len(txn.existing)
    /\ txn' = [txn EXCEPT
                 !.view    = RemoveFirst(@, txn.existing[txn.deleted + 1]),
                 !.deleted = @ + 1]
    /\ UNCHANGED <<nowDay, dailyStats, users, insightsReports, apiKeys, call,
                   response>>

\* for (const stat of args.stats) await ctx.db.insert(...): one turn.
BatchInsert ==
    /\ txn.op = "batchRecordStats"
    /\ txn.deleted = Len(txn.existing)
    /\ txn.inserted < Len(txn.stats)
    /\ txn' = [txn EXCEPT
                 !.view     = Append(@, InsertedDoc(txn.userId,
                                  txn.stats[txn.inserted + 1], txn.now)),
                 !.inserted = @ + 1]
    /\ UNCHANGED <<nowDay, dailyStats, users, insightsReports, apiKeys, call,
                   response>>

\* The handler returns and the transaction commits: the view becomes the table.
BatchCommit ==
    /\ txn.op = "batchRecordStats"
    /\ txn.deleted = Len(txn.existing)
    /\ txn.inserted = Len(txn.stats)
    /\ call = NoCall
    /\ dailyStats' = txn.view
    /\ txn' = NoTxn
    /\ call' = [op |-> "batchRecordStats", userId |-> txn.userId,
                stats |-> txn.stats, now |-> txn.now]
    /\ response' = [success  |-> TRUE,
                    deleted  |-> Len(txn.existing),
                    inserted |-> Len(txn.stats)]
    /\ UNCHANGED <<nowDay, users, insightsReports, apiKeys>>


----------------------------------------------------------------------------
(* stats.ts and users.ts: the maintenance mutations *)

\* String.prototype.toLowerCase on the letters A-Z.
toLowerCase(s) ==
    [i \in 1..Len(s) |-> IF s[i] \in 65..90 THEN s[i] + 32 ELSE s[i]]

\* The string has the substring.
Includes(s, sub) ==
    \E i \in 0..(Len(s) - Len(sub)) : SubSeq(s, i + 1, i + Len(sub)) = sub

\* The patterns of cleanupFakeData: "<script", "javascript:", "onclick",
\* "onerror", "onload", "<svg", "<img", "../", "alert(", "eval(".
suspiciousPatterns ==
    << 
       [source |-> <<60, 115, 99, 114, 105, 112, 116>>, ignoreCase |-> TRUE],
       [source |-> <<106, 97, 118, 97, 115, 99, 114, 105, 112, 116, 58>>, ignoreCase |-> TRUE],
       [source |-> <<111, 110, 99, 108, 105, 99, 107>>, ignoreCase |-> TRUE],
       [source |-> <<111, 110, 101, 114, 114, 111, 114>>, ignoreCase |-> TRUE],
       [source |-> <<111, 110, 108, 111, 97, 100>>, ignoreCase |-> TRUE],
       [source |-> <<60, 115, 118, 103>>, ignoreCase |-> TRUE],
       [source |-> <<60, 105, 109, 103>>, ignoreCase |-> TRUE],
       [source |-> <<46, 46, 47>>, ignoreCase |-> FALSE],
       [source |-> <<97, 108, 101, 114, 116, 40>>, ignoreCase |-> TRUE],
       [source |-> <<101, 118, 97, 108, 40>>, ignoreCase |-> TRUE] >>

\* pattern.test(displayName)
PatternTest(pattern, name) ==
    IF pattern.ignoreCase THEN Includes(toLowerCase(name), pattern.source)
    ELSE Includes(name, pattern.source)

\* user.displayName || ""
NameOrEmpty(user) ==
    IF user.displayName = Absent THEN <<>> ELSE user.displayName[1]

RECURSIVE UsersInOrder(_)
\* ctx.db.query("users").collect(): the documents in creation order, which is
\* the order of their ids.
UsersInOrder(userDocs) ==
    IF userDocs = {} THEN <<>>
    ELSE LET first == CHOOSE u \in userDocs : \A v \in userDocs : u.id <= v.id
         IN  <<first>> \o UsersInOrder(userDocs \ {first})

\* users.find((u) => u.displayName === args.displayName)
FindByDisplayName(userDocs, displayName) ==
    SelectSeq(UsersInOrder(userDocs),
              LAMBDA u : u.displayName = Some(displayName))

deleteStatsOf(table, found) ==
    IF found = <<>>
    THEN [dailyStats |-> table,
          value |-> [success |-> FALSE, error |-> "User not found",
                     deleted |-> 0]]
    ELSE [dailyStats |-> SelectSeq(table, LAMBDA s : s.userId # found[1].id),
          value |-> [success |-> TRUE,
                     deleted |-> Len(StatsByUser(table, found[1].id)),
                     userId |-> found[1].id]]

deleteStatsByDisplayName(table, userDocs, displayName) ==
    deleteStatsOf(table, FindByDisplayName(userDocs, displayName))

DeleteStatsByDisplayName(displayName) ==
    Applies([op |-> "deleteStatsByDisplayName", displayName |-> displayName],
            deleteStatsByDisplayName(dailyStats, users, displayName))

RECURSIVE SumCost(_, _)
\* totalCost += stat.totalCost over the user's documents.
SumCost(acc, stats) ==
    IF stats = <<>> THEN acc
    ELSE SumCost(FAdd(acc, stats[1].totalCost), Tail(stats))

RECURSIVE SumTokens(_, _)
SumTokens(acc, stats) ==
    IF stats = <<>> THEN acc
    ELSE SumTokens(acc + stats[1].totalTokens, Tail(stats))

\* totalTokens > 10_000_000_000, on numbers the model's integers can hold.
OverTenBillion(n) ==
    \/ n \div 10 > MAX_DAILY_TOKENS
    \/ (n \div 10 = MAX_DAILY_TOKENS /\ n % 10 > 0)

\* The checks on a user's documents (lines 280-310).
RidiculousStats(docs) ==
    \/ OverTenBillion(SumTokens(0, docs))
    \/ SumCost(0, docs) > Dollars(100000)
    \/ \E k \in 1..Len(docs) :
          \/ docs[k].totalTokens > MAX_DAILY_TOKENS
          \/ docs[k].totalCost > Dollars(MAX_DAILY_COST)
          \/ docs[k].totalTokens < 0
          \/ docs[k].totalCost < 0

shouldDelete(user, table) ==
    \/ \E i \in 1..Len(suspiciousPatterns) :
          PatternTest(suspiciousPatterns[i], NameOrEmpty(user))
    \/ RidiculousStats(StatsByUser(table, user.id))

\* The users cleanupFakeData deletes, in the order it meets them.
FakeUsers(table, userDocs) ==
    SelectSeq(UsersInOrder(userDocs), LAMBDA u : shouldDelete(u, table))

cleanupOf(table, userDocs, fake) ==
    [dailyStats |-> SelectSeq(table, LAMBDA s :
                        \A i \in 1..Len(fake) : s.userId # fake[i].id),
     users      |-> userDocs \ Range(fake),
     value      |-> [success |-> TRUE,
                     deletedUsers |-> [i \in 1..Len(fake) |->
                                          NameOrEmpty(fake[i])],
                     deletedUsersCount |-> Len(fake),
                     totalStatsDeleted |->
                        Len(SelectSeq(table, LAMBDA s :
                            \E i \in 1..Len(fake) : s.userId = fake[i].id))]]

cleanupFakeData(table, userDocs) ==
    cleanupOf(table, userDocs, FakeUsers(table, userDocs))

\* A mutation that writes dailyStats and users.
AppliesAll(c, result) ==
    Commits(c, result.value, result.dailyStats, result.users)

CleanupFakeData ==
    AppliesAll([op |-> "cleanupFakeData"], cleanupFakeData(dailyStats, users))


\* The place of a document the running mutation has deleted (no user has
\* the id 0).
Gone == [userId |-> 0, date |-> <<>>]

\* Merge by keeping the higher values (lines 219-226).
KeepHigher(existingStat, stat) ==
    [existingStat EXCEPT
       !.inputTokens         = Max(@, stat.inputTokens),
       !.outputTokens        = Max(@, stat.outputTokens),
       !.cacheCreationTokens = Max(@, stat.cacheCreationTokens),
       !.cacheReadTokens     = Max(@, stat.cacheReadTokens),
       !.totalTokens         = Max(@, stat.totalTokens),
       !.totalCost           = Max(@, stat.totalCost)]

\* One document of a duplicate user: merged into the primary user's document
\* for the date (hit) and deleted, or moved to the primary user.  unique()
\* throws when the primary user has two documents for the date.
mergeStatAt(m, k, primaryId, hit) ==
    IF Cardinality(hit) > 1 THEN [m EXCEPT !.threw = TRUE]
    ELSE IF hit # {}
    THEN [m EXCEPT !.table =
             [@ EXCEPT ![CHOOSE j \in hit : TRUE] = KeepHigher(@, m.table[k]),
                       ![k] = Gone]]
    ELSE [m EXCEPT !.table = [@ EXCEPT ![k].userId = primaryId]]

RECURSIVE MergeStatsFrom(_, _, _, _)
\* for (const stat of dupStats), from the table's k-th document on.
MergeStatsFrom(m, k, dupId, primaryId) ==
    IF m.threw \/ k > Len(m.table) THEN m
    ELSE MergeStatsFrom(
             IF m.table[k].userId = dupId
             THEN mergeStatAt(m, k, primaryId,
                      ByUserDate(m.table, primaryId, m.table[k].date))
             ELSE m,
             k + 1, dupId, primaryId)

RECURSIVE MergeDups(_, _, _)
\* for (const dup of duplicates)
MergeDups(m, dups, primary) ==
    IF dups = <<>> THEN m
    ELSE MergeDups([MergeStatsFrom(m, 1, dups[1].id, primary.id)
                       EXCEPT !.merged = Append(@, dups[1])],
                   Tail(dups), primary)

RECURSIVE InsertByCreated(_, _)
InsertByCreated(sorted, u) ==
    IF sorted = <<>> THEN <<u>>
    ELSE IF sorted[1].createdAt >= u.createdAt
         THEN <<sorted[1]>> \o InsertByCreated(Tail(sorted), u)
         ELSE <<u>> \o sorted

RECURSIVE SortByCreatedFrom(_, _)
\* users.sort((a, b) => b.createdAt - a.createdAt): stable, newest first.
SortByCreatedFrom(sorted, rest) ==
    IF rest = <<>> THEN sorted
    ELSE SortByCreatedFrom(InsertByCreated(sorted, rest[1]), Tail(rest))

\* The group as the loop over duplicates finds it: sorted in place unless a
\* GitHub user was found first.
GroupAfterChoice(group) ==
    IF \E i \in 1..Len(group) : group[i].slackTeamId = "github" THEN group
    ELSE SortByCreatedFrom(<<>>, group)

\* githubUser || users.sort(...)[0]
PrimaryOf(group) ==
    IF \E i \in 1..Len(group) : group[i].slackTeamId = "github"
    THEN SelectSeq(group, LAMBDA u : u.slackTeamId = "github")[1]
    ELSE GroupAfterChoice(group)[1]

DuplicatesOf(group) ==
    SelectSeq(GroupAfterChoice(group), LAMBDA u : u.id # PrimaryOf(group).id)

\* byName.get(name): the users with that lowercase display name.
GroupOf(allUsers, name) ==
    SelectSeq(allUsers, LAMBDA u : toLowerCase(NameOrEmpty(u)) = name)

RECURSIVE GroupNames(_, _)
\* The keys of byName in insertion order; users without a name are skipped.
GroupNames(names, allUsers) ==
    IF allUsers = <<>> THEN names
    ELSE GroupNames(
             IF \/ NameOrEmpty(allUsers[1]) = <<>>
                \/ toLowerCase(NameOrEmpty(allUsers[1])) \in Range(names)
             THEN names
             ELSE Append(names, toLowerCase(NameOrEmpty(allUsers[1]))),
             Tail(allUsers))

RECURSIVE MergeGroups(_, _, _)
\* for (const [name, users] of byName)
MergeGroups(m, allUsers, names) ==
    IF names = <<>> THEN m
    ELSE MergeGroups(
             IF Len(GroupOf(allUsers, names[1])) <= 1 THEN m
             ELSE MergeDups(m, DuplicatesOf(GroupOf(allUsers, names[1])),
                            PrimaryOf(GroupOf(allUsers, names[1]))),
             allUsers, Tail(names))

mergeResult(table, userDocs, m) ==
    IF m.threw
    THEN [dailyStats |-> table, users |-> userDocs,
          value |-> Threw("unique() returned more than one result")]
    ELSE [dailyStats |-> SelectSeq(m.table, LAMBDA s : s # Gone),
          users      |-> userDocs \ Range(m.merged),
          value      |-> [merged |-> [i \in 1..Len(m.merged) |->
                                         [displayName |-> NameOrEmpty(m.merged[i]),
                                          slackTeamId |-> m.merged[i].slackTeamId]],
                          count  |-> Len(m.merged)]]

mergeDuplicateUsers(table, userDocs) ==
    mergeResult(table, userDocs,
        MergeGroups([threw |-> FALSE, table |-> table, merged |-> <<>>],
                    UsersInOrder(userDocs),
                    GroupNames(<<>>, UsersInOrder(userDocs))))

MergeDuplicateUsers ==
    AppliesAll([op |-> "mergeDuplicateUsers"],
               mergeDuplicateUsers(dailyStats, users))

----------------------------------------------------------------------------
(* Specification Spec: the leaderboard queries over small record tables *)

\* Most records the dailyStats table holds.
MaxStats == 3

\* The clock day of the ranking runs: the windows straddle a year's end.
RankNowDay == DaysFromCivil(2025, 1, 1)

UserIds == {1, 2, 3}

\* The users: "al ice" and "bob" of team T1 and a user of team T2 without a
\* display name; the Slack ids are "U0001", "U0002", "U0003".  Names and ids
\* are sequences of code units.
UserDoc(id) ==
    [id          |-> id,
     slackUserId |-> <<85, 48, 48, 48, 48 + id>>,
     slackTeamId |-> IF id = 3 THEN "T2" ELSE "T1",
     displayName |-> IF id = 1 THEN Some(<<97, 108, 32, 105, 99, 101>>)
                     ELSE IF id = 2 THEN Some(<<98, 111, 98>>) ELSE Absent]

\* Two usage samples; the second's cost is large enough for a sum with the
\* first to need rounding.
UsageSamples ==
    { [inputTokens |-> 1, outputTokens |-> 2, cacheCreationTokens |-> 3,
       cacheReadTokens |-> 4, totalTokens |-> 10, totalCost |-> 1,
       modelsUsed |-> <<"opus">>, updatedAt |-> 200],
      [inputTokens |-> 10, outputTokens |-> 20, cacheCreationTokens |-> 30,
       cacheReadTokens |-> 40, totalTokens |-> 100,
       totalCost |-> Pow2(MantissaBits),
       modelsUsed |-> <<"sonnet", "opus">>, updatedAt |-> 100] }

\* Offsets from the clock day: the last day of every current window, and a
\* day that lies in the daily previous window but before the daily current one.
RankDayOffsets == {1, -3}

StatDoc(userId, date, utcDate, u) ==
    [userId              |-> userId,
     date                |-> date,
     utcDate             |-> utcDate,
     inputTokens         |-> u.inputTokens,
     outputTokens        |-> u.outputTokens,
     cacheCreationTokens |-> u.cacheCreationTokens,
     cacheReadTokens     |-> u.cacheReadTokens,
     totalTokens         |-> u.totalTokens,
     totalCost           |-> u.totalCost,
     modelsUsed          |-> u.modelsUsed,
     updatedAt           |-> u.updatedAt]

RankRecords ==
    {StatDoc(id, FormatDate(RankNowDay + off), Absent, u) :
        id \in UserIds, off \in RankDayOffsets, u \in UsageSamples}

\* The tables of at most MaxStats records, in any insertion order, that hold
\* one record per user and date (what recordDailyStats' upsert maintains).
Tables(records) ==
    {t \in UNION {[1..n -> records] : n \in 0..MaxStats} :
        \A i \in 1..Len(t) : \A j \in 1..Len(t) :
            (t[i].userId = t[j].userId /\ t[i].date = t[j].date) => i = j}

Limits == {Absent, Some(1), Some(2)}

ShortLimits == {Absent, Some(1)}

Teams == {Absent, Some("T1")}

Init ==
    /\ nowDay = RankNowDay
    /\ dailyStats \in Tables(RankRecords)
    /\ users = {UserDoc(id) : id \in UserIds}
    /\ insightsReports = {1}
    /\ apiKeys = <<>>
    /\ txn = NoTxn
    /\ call = NoCall
    /\ response = NoCall

Next ==
    \/ \E period \in Periods, limit \in Limits : GetPageData(period, limit)
    \/ \E teamId \in Teams, limit \in ShortLimits :
          GetDailyLeaderboard(teamId, limit)
    \/ \E teamId \in Teams, limit \in ShortLimits :
          GetWeeklyLeaderboard(teamId, limit)
    \/ \E teamId \in Teams, limit \in ShortLimits :
          GetMonthlyLeaderboard(teamId, limit)
    \/ \E teamId \in Teams, limit \in ShortLimits :
          GetAllTimeLeaderboard(teamId, limit)
    \/ Respond

Spec == Init /\ [][Next]_vars

----------------------------------------------------------------------------
(* Specification SpecOrder: one user's records on three days of the window *)

\* Offsets from the clock day of three days inside every weekly, monthly and
\* all-time window.
OrderDayOffsets == {1, -1, -3}

OrderUserIds == {1, 2}

OrderRecords ==
    {StatDoc(id, FormatDate(RankNowDay + off), Absent, u) :
        id \in OrderUserIds, off \in OrderDayOffsets, u \in UsageSamples}

InitOrder ==
    /\ nowDay = RankNowDay
    /\ dailyStats \in Tables(OrderRecords)
    /\ users = {UserDoc(id) : id \in UserIds}
    /\ insightsReports = {}
    /\ apiKeys = <<>>
    /\ txn = NoTxn
    /\ call = NoCall
    /\ response = NoCall

NextOrder ==
    \/ GetDailyLeaderboard(Absent, Absent)
    \/ GetWeeklyLeaderboard(Absent, Absent)
    \/ GetMonthlyLeaderboard(Absent, Absent)
    \/ GetAllTimeLeaderboard(Absent, Absent)
    \/ Respond

SpecOrder == InitOrder /\ [][NextOrder]_vars

----------------------------------------------------------------------------
(* Properties of the leaderboard queries (specification Spec) *)

BoardOps == {"getPageData", "getDailyLeaderboard", "getWeeklyLeaderboard",
             "getMonthlyLeaderboard", "getAllTimeLeaderboard"}

\* The leaderboard a leaderboard query returned.
Board == IF call.op = "getPageData" THEN response.leaderboard ELSE response

\* Days before the clock day a period's current window reaches back.
PeriodDays(period) ==
    CASE period = "daily" -> 1 [] period = "weekly" -> 7
      [] period = "monthly" -> 30

\* The current window of a period as day numbers: from days + 1 days before
\* the clock day (2000-01-01 for all-time) to the day after it.
WindowFirstDay(period) ==
    IF period = "alltime" THEN DaysFromCivil(2000, 1, 1)
    ELSE nowDay - PeriodDays(period) - 1

WindowLastDay == nowDay + 1

\* The record's effective date lies in the period's current window, by the
\* calendar (not by comparing strings).
InWindow(stat, period) ==
    /\ WindowFirstDay(period) <= ParseDate(getEffectiveDate(stat))
    /\ ParseDate(getEffectiveDate(stat)) <= WindowLastDay

\* The positions of the user's in-window records, in table order.
UserRows(userId, period) ==
    {k \in 1..Len(dailyStats) :
        dailyStats[k].userId = userId /\ InWindow(dailyStats[k], period)}

\* The users a query with this team filter can return.
Listed(userId, teamId) ==
    \E u \in users :
        /\ u.id = userId
        /\ (teamId = Absent \/ u.slackTeamId = teamId[1])

\* C1: the i-th entry of a returned leaderboard has rank i (ranks 1..N, no gap,
\* no duplicate), total cost never increases along the list, and without a
\* limit N is the number of listed users with an in-window record.
C1_DenseRanksSortedByCost ==
    call.op \in BoardOps =>
        /\ \A i \in 1..Len(Board) : Board[i].rank = i
        /\ \A i \in 1..Len(Board) : \A j \in i..Len(Board) :
               Board[i].totalCost >= Board[j].totalCost
        /\ call.limit = Absent =>
               Len(Board) = Cardinality({id \in UserIds :
                   /\ UserRows(id, call.period) # {}
                   /\ Listed(id, call.teamId)})

C1_ThreeRankedUsers ==
    /\ call.op \in BoardOps
    /\ Len(Board) = 3
    /\ Board[1].totalCost > Board[2].totalCost
    /\ Board[2].totalCost = Board[3].totalCost
    /\ Board[1].userId = dailyStats[3].userId

\* The leaderboards of the call's current and previous window before rank
\* changes are attached and before the limit is applied.
CurrentBoard(ranges) ==
    buildLeaderboardFromStats(dailyStats, ranges.currentStart,
                              ranges.currentEnd, call.teamId)

PreviousBoard(ranges) ==
    buildLeaderboardFromStats(dailyStats, ranges.previousStart,
                              ranges.previousEnd, call.teamId)

RankChangesMatch(board, current, previous) ==
    \A i \in 1..Len(board) :
        /\ (\A j \in 1..Len(previous) : previous[j].userId # board[i].userId)
               => board[i].rankChange = RankNew
        /\ \A j \in 1..Len(previous) :
               previous[j].userId = board[i].userId
                   => board[i].rankChange =
                          RankDelta(previous[j].rank - board[i].rank)
        /\ \A f \in DOMAIN current[i] \ {"rankChange"} :
               board[i][f] = current[i][f]

\* C2: in a period with a previous window an entry's rankChange is "new" when
\* its user is not on the previous leaderboard, and otherwise the previous
\* rank minus the current rank (positive towards rank 1); every other field is
\* the one the current leaderboard had.
C2_RankChangeIsPreviousMinusCurrent ==
    (call.op \in BoardOps /\ call.period # "alltime") =>
        RankChangesMatch(Board,
                         CurrentBoard(getPeriodDateRanges(call.period)),
                         PreviousBoard(getPeriodDateRanges(call.period)))

C2_NewcomerAndFaller ==
    /\ call.op \in BoardOps
    /\ call.period = "daily"
    /\ \E i \in 1..Len(Board) : Board[i].rankChange = RankNew
    /\ \E i \in 1..Len(Board) :
           /\ Board[i].rankChange.tag = "number"
           /\ Board[i].rankChange.delta < 0

RECURSIVE CostInOrder(_, _)
\* The floating-point sum of the costs of the rows at positions k..Len, taken
\* in table order, that belong to the set rows.
CostInOrder(acc, ks) ==
    IF ks = {} THEN acc
    ELSE CostInOrder(
           Fl(acc + dailyStats[CHOOSE k \in ks : \A m \in ks : k <= m].totalCost),
           ks \ {CHOOSE k \in ks : \A m \in ks : k <= m})

EntryAggregates(e, rows) ==
    /\ rows # {}
    /\ e.inputTokens = SumSet(rows, [k \in rows |-> dailyStats[k].inputTokens])
    /\ e.outputTokens = SumSet(rows, [k \in rows |-> dailyStats[k].outputTokens])
    /\ e.cacheCreationTokens =
           SumSet(rows, [k \in rows |-> dailyStats[k].cacheCreationTokens])
    /\ e.cacheReadTokens =
           SumSet(rows, [k \in rows |-> dailyStats[k].cacheReadTokens])
    /\ e.totalTokens = SumSet(rows, [k \in rows |-> dailyStats[k].totalTokens])
    /\ e.totalCost = CostInOrder(0, rows)
    /\ Range(e.modelsUsed) = UNION {Range(dailyStats[k].modelsUsed) : k \in rows}
    /\ Len(e.modelsUsed) = Cardinality(Range(e.modelsUsed))
    /\ \A k \in rows : e.lastSyncedAt >= dailyStats[k].updatedAt
    /\ \E k \in rows : e.lastSyncedAt = dailyStats[k].updatedAt

\* C4: every returned entry carries, over its user's in-window records, the
\* sum of each of the five token counters, the sum of the costs, the union of
\* the model lists without duplicates and the largest updatedAt; no user has
\* two entries and a user without an in-window record has none.
C4_AggregateIsSumUnionMax ==
    call.op \in BoardOps =>
        /\ \A i \in 1..Len(Board) :
               EntryAggregates(Board[i], UserRows(Board[i].userId, call.period))
        /\ \A i \in 1..Len(Board) : \A j \in 1..Len(Board) :
               Board[i].userId = Board[j].userId => i = j

C4_TwoRecordsMerged ==
    /\ call.op \in BoardOps
    /\ Len(dailyStats) = 3
    /\ \E i \in 1..Len(Board) :
           /\ Cardinality(UserRows(Board[i].userId, call.period)) = 2
           /\ Board[i].modelsUsed = <<"sonnet", "opus">>
           /\ Board[i].totalTokens = 110
           /\ Board[i].totalCost = Pow2(MantissaBits)
           /\ Board[i].lastSyncedAt = 200

\* The aggregates as a set, each with its model list as a set: what is left
\* of the Map once the order of its keys and of the model lists is forgotten.
AggregateSet(aggs) ==
    {[aggs[i] EXCEPT !.modelsUsed = Range(@)] : i \in 1..Len(aggs)}

\* The same without the cost.
TokenAggregateSet(aggs) ==
    {[aggs[i] EXCEPT !.modelsUsed = Range(@), !.totalCost = 0] :
        i \in 1..Len(aggs)}

\* The table's records in the order p.
Reordered(p) == [i \in 1..Len(dailyStats) |-> dailyStats[p[i]]]

\* C5: the aggregates of the call's current window are the same for every
\* order in which the same records are processed.
C5_AggregationOrderIndependent ==
    call.op \in BoardOps =>
        \A p \in Permutations(1..Len(dailyStats)) :
            AggregateSet(Aggregate(Reordered(p),
                                   getPeriodDateRanges(call.period).currentStart,
                                   getPeriodDateRanges(call.period).currentEnd))
              = AggregateSet(Aggregate(dailyStats,
                                   getPeriodDateRanges(call.period).currentStart,
                                   getPeriodDateRanges(call.period).currentEnd))

\* What does hold of reordering: the token sums, the model sets and
\* lastSyncedAt do not depend on the order (the cost sum does).
C5_TokenSumsOrderIndependent ==
    call.op \in BoardOps =>
        \A p \in Permutations(1..Len(dailyStats)) :
            TokenAggregateSet(Aggregate(Reordered(p),
                                   getPeriodDateRanges(call.period).currentStart,
                                   getPeriodDateRanges(call.period).currentEnd))
              = TokenAggregateSet(Aggregate(dailyStats,
                                   getPeriodDateRanges(call.period).currentStart,
                                   getPeriodDateRanges(call.period).currentEnd))

\* The answer the call would have got without a limit.
UnlimitedBoard ==
    CASE call.op = "getPageData" ->
             getPageData(call.period, Absent).value.leaderboard
      [] call.op = "getDailyLeaderboard" ->
             getDailyLeaderboard(call.teamId, Absent).value
      [] call.op = "getWeeklyLeaderboard" ->
             getWeeklyLeaderboard(call.teamId, Absent).value
      [] call.op = "getMonthlyLeaderboard" ->
             getMonthlyLeaderboard(call.teamId, Absent).value
      [] call.op = "getAllTimeLeaderboard" ->
             getAllTimeLeaderboard(call.teamId, Absent)

IsPrefix(board, full, limit) ==
    /\ Len(board) = IF limit < Len(full) THEN limit ELSE Len(full)
    /\ \A i \in 1..Len(board) : board[i] = full[i]

\* C6: with a positive limit L the answer is the first min(L, N) entries of
\* the unlimited answer of N entries, with the ranks they have there.
C6_LimitKeepsTopOfFullRanking ==
    (call.op \in BoardOps /\ call.limit # Absent /\ call.limit[1] > 0) =>
        IsPrefix(Board, UnlimitedBoard, call.limit[1])

C6_TruncatedBelowFullLength ==
    /\ call.op \in BoardOps
    /\ call.limit = Some(2)
    /\ Len(UnlimitedBoard) = 3
    /\ Len(Board) = 2
    /\ Board[2].rank = 2

\* C8: an all-time answer has rankChange null on every entry; a daily, weekly
\* or monthly answer has it on none.
C8_RankChangeNullOnlyForAllTime ==
    call.op \in BoardOps =>
        \A i \in 1..Len(Board) :
            (Board[i].rankChange = RankNull) <=> (call.period = "alltime")

C8_AllTimePageWithEntries ==
    /\ call.op = "getPageData"
    /\ call.period = "alltime"
    /\ Len(Board) >= 2
    /\ \A i \in 1..Len(Board) : Board[i].rankChange = RankNull

\* The queries that serve two windows, or a summary and a leaderboard.
ScanOnceOps == {"getPageData", "getDailyLeaderboard", "getWeeklyLeaderboard",
                "getMonthlyLeaderboard"}

\* The positions of the records in the period's current window.
WindowRows(period) ==
    {k \in 1..Len(dailyStats) : InWindow(dailyStats[k], period)}

\* C14: getPageData, getDailyLeaderboard, getWeeklyLeaderboard and
\* getMonthlyLeaderboard each scan the dailyStats table exactly once per
\* invocation; the page's summary and its leaderboard describe the same
\* records (the summary's users and tokens are those of the table's in-window
\* records, and the unlimited leaderboard lists that many users), and the rank
\* changes are those against the previous window of the same table.
C14_OneScanServesEveryWindow ==
    call.op \in ScanOnceOps =>
        /\ call.scans = 1
        /\ call.op = "getPageData" =>
              /\ response.statsSummary.totalUsers =
                     Cardinality({dailyStats[k].userId :
                                     k \in WindowRows(call.period)})
              /\ response.statsSummary.totalTokens =
                     SumSet(WindowRows(call.period),
                            [k \in WindowRows(call.period) |->
                                dailyStats[k].totalTokens])
              /\ call.limit = Absent =>
                     Len(Board) = response.statsSummary.totalUsers
        /\ call.period # "alltime" => \A i \in 1..Len(Board) :
               (Board[i].rankChange = RankNew) <=>
                   (\A j \in 1..Len(PreviousBoard(getPeriodDateRanges(call.period))) :
                       PreviousBoard(getPeriodDateRanges(call.period))[j].userId
                           # Board[i].userId)

C14_PageWithSummaryAndRankChanges ==
    /\ call.op = "getPageData"
    /\ call.period = "daily"
    /\ call.scans = 1
    /\ response.statsSummary.totalUsers = 2
    /\ \E i \in 1..Len(Board) : Board[i].rankChange.tag = "number"
    /\ \E i \in 1..Len(Board) : Board[i].rankChange = RankNew

----------------------------------------------------------------------------
(* Specification SpecWindow: the window filters at their boundaries *)

\* The clock day: the daily window runs from 2024-02-28 to 2024-03-02.
WindowNowDay == DaysFromCivil(2024, 3, 1)

WindowStart == FormatDate(WindowNowDay - 2)

WindowEnd == FormatDate(WindowNowDay + 1)

\* The (date, utcDate) pairs of the stored records: the day before the
\* window, its first day, its last day, the day after it, and two records
\* whose client-local date is on the other side of the window's end than
\* their UTC date.
WindowDateForms ==
    { <<FormatDate(WindowNowDay - 3), Absent>>,
      <<WindowStart, Absent>>,
      <<WindowEnd, Absent>>,
      <<FormatDate(WindowNowDay + 2), Absent>>,
      <<WindowEnd, Some(FormatDate(WindowNowDay + 2))>>,
      <<FormatDate(WindowNowDay + 2), Some(WindowEnd)>> }

WindowUserIds == {1, 2}

\* Each user's records carry one usage sample: the first for user 1.
SampleOf(id) ==
    CHOOSE u \in UsageSamples : (u.totalTokens = 10) <=> (id = 1)

WindowRecords ==
    {StatDoc(id, f[1], f[2], SampleOf(id)) :
        id \in WindowUserIds, f \in WindowDateForms}

InitWindow ==
    /\ nowDay = WindowNowDay
    /\ dailyStats \in Tables(WindowRecords)
    /\ users = {UserDoc(id) : id \in UserIds}
    /\ insightsReports = {}
    /\ apiKeys = <<>>
    /\ txn = NoTxn
    /\ call = NoCall
    /\ response = NoCall

NextWindow ==
    \/ \E startDate \in {WindowStart, WindowEnd},
          endDate \in {WindowStart, WindowEnd} :
          GetLeaderboardByDateRange(startDate, endDate, Absent, Absent)
    \/ \E period \in Periods : GetStatsSummary(period)
    \/ GetDailyUsageChart("daily", Absent, Absent)
    \/ \E userId \in WindowUserIds :
          GetUserStats(userId, WindowStart, WindowEnd)
    \/ \E userId \in WindowUserIds :
          GetUserAggregateStats(userId, WindowStart, WindowEnd)
    \/ Respond

SpecWindow == InitWindow /\ [][NextWindow]_vars

----------------------------------------------------------------------------
(* Properties of the window filters (specification SpecWindow) *)

WindowedOps == {"getLeaderboardByDateRange", "getStatsSummary",
                "getDailyUsageChart"}

UserWindowedOps == {"getUserStats", "getUserAggregateStats"}

HasDateArgs == call.op \in UserWindowedOps \cup {"getLeaderboardByDateRange"}

\* The first and last day of the call's window, as day numbers.
CallFirstDay ==
    IF HasDateArgs THEN ParseDate(call.startDate) ELSE WindowFirstDay(call.period)

CallLastDay == IF HasDateArgs THEN ParseDate(call.endDate) ELSE WindowLastDay

\* The positions of the records whose effective date lies in the call's
\* window by the calendar, both ends included.
RowsInCallWindow ==
    {k \in 1..Len(dailyStats) :
        /\ CallFirstDay <= ParseDate(getEffectiveDate(dailyStats[k]))
        /\ ParseDate(getEffectiveDate(dailyStats[k])) <= CallLastDay}

\* Those of the user the call names.
UserRowsInCallWindow ==
    {k \in RowsInCallWindow : dailyStats[k].userId = call.userId}

TokensOfRows(rows) == SumSet(rows, [k \in rows |-> dailyStats[k].totalTokens])

TokensOfList(list) ==
    SumSet(1..Len(list), [i \in 1..Len(list) |-> list[i].totalTokens])

\* C3: a leaderboard, a summary and a chart count exactly the records whose
\* effective date d satisfies startDate <= d <= endDate: their token totals
\* are the totals of those records, and their users (dates, for the chart)
\* are the users (dates) of those records.
C3_WindowInclusiveAtBothEnds ==
    /\ call.op = "getLeaderboardByDateRange" =>
           /\ TokensOfList(response) = TokensOfRows(RowsInCallWindow)
           /\ {response[i].userId : i \in 1..Len(response)}
                = {dailyStats[k].userId : k \in RowsInCallWindow}
    /\ call.op = "getStatsSummary" =>
           /\ response.totalTokens = TokensOfRows(RowsInCallWindow)
           /\ response.totalUsers
                = Cardinality({dailyStats[k].userId : k \in RowsInCallWindow})
    /\ call.op = "getDailyUsageChart" =>
           /\ TokensOfList(response) = TokensOfRows(RowsInCallWindow)
           /\ {response[i].date : i \in 1..Len(response)}
                = {getEffectiveDate(dailyStats[k]) : k \in RowsInCallWindow}

C3_EndDayCountedNextDayNot ==
    /\ call.op = "getLeaderboardByDateRange"
    /\ call.startDate = WindowStart
    /\ call.endDate = WindowEnd
    /\ \E k \in 1..Len(dailyStats) :
           getEffectiveDate(dailyStats[k]) = call.endDate
    /\ \E k \in 1..Len(dailyStats) :
           getEffectiveDate(dailyStats[k]) = call.startDate
    /\ \E k \in 1..Len(dailyStats) :
           ParseDate(getEffectiveDate(dailyStats[k])) = ParseDate(call.endDate) + 1
    /\ Len(response) = 1
    /\ response[1].totalTokens = 20

\* C9: every query that restricts records to a window selects by the
\* effective date: the leaderboard, summary and chart totals, the records
\* getUserStats returns and the totals and day count of getUserAggregateStats
\* are those of the records whose effective date lies in the window.
C9_EveryWindowFilterUsesEffectiveDate ==
    /\ call.op \in WindowedOps =>
           IF call.op = "getStatsSummary"
           THEN response.totalTokens = TokensOfRows(RowsInCallWindow)
           ELSE TokensOfList(response) = TokensOfRows(RowsInCallWindow)
    /\ call.op = "getUserStats" =>
           Range(response) = {dailyStats[k] : k \in UserRowsInCallWindow}
    /\ call.op = "getUserAggregateStats" =>
           /\ response.totalTokens = TokensOfRows(UserRowsInCallWindow)
           /\ response.daysActive = Cardinality(UserRowsInCallWindow)

\* What the two per-user queries do instead: they select by the raw date.
C9_UserQueriesSelectByRawDate ==
    call.op \in UserWindowedOps =>
        (IF call.op = "getUserStats" THEN Len(response) ELSE response.daysActive)
          = Cardinality({k \in 1..Len(dailyStats) :
                /\ dailyStats[k].userId = call.userId
                /\ CallFirstDay <= ParseDate(dailyStats[k].date)
                /\ ParseDate(dailyStats[k].date) <= CallLastDay})

----------------------------------------------------------------------------
(* Specification SpecChart: the usage charts at day, week and month buckets *)

\* The clock day, a Wednesday.
ChartNowDay == DaysFromCivil(2024, 3, 6)

\* The record dates: Thursday 2024-02-29 and Sunday 2024-03-03 share the ISO
\* week of Monday 2024-02-26; Monday 2024-03-04 shares the month of the Sunday.
ChartDays ==
    {DaysFromCivil(2024, 2, 29), DaysFromCivil(2024, 3, 3),
     DaysFromCivil(2024, 3, 4)}

ChartUserIds == {1, 2}

ChartRecords ==
    {StatDoc(id, FormatDate(day), Absent, u) :
        id \in ChartUserIds, day \in ChartDays, u \in UsageSamples}

ChartBuckets == {Absent} \cup {Some(b) : b \in BucketModes}

ChartTimeRanges == {Absent, Some("30d")}

ChartTopNs == {Absent, Some(1)}

InitChart ==
    /\ nowDay = ChartNowDay
    /\ dailyStats \in Tables(ChartRecords)
    /\ users = {UserDoc(id) : id \in UserIds}
    /\ insightsReports = {}
    /\ apiKeys = <<>>
    /\ txn = NoTxn
    /\ call = NoCall
    /\ response = NoCall

NextChart ==
    \/ \E bucketBy \in ChartBuckets, timeRange \in ChartTimeRanges :
          GetDailyUsageChart("monthly", bucketBy, timeRange)
    \/ \E topN \in ChartTopNs, bucketBy \in ChartBuckets,
          timeRange \in ChartTimeRanges :
          GetUserDailyUsageChart("monthly", topN, bucketBy, timeRange)
    \/ Respond

SpecChart == InitChart /\ [][NextChart]_vars

----------------------------------------------------------------------------
(* Properties of the charts (specification SpecChart) *)

\* The bucket a date belongs to, by the calendar: the Monday on or before it,
\* or the first day of its month.
BucketOfDate(dateStr, bucketBy) ==
    IF bucketBy = "week"
    THEN FormatDate(ParseDate(dateStr) - ((ParseDate(dateStr) + 3) % 7))
    ELSE FormatDate(DaysFromCivil(ParseInt(SubSeq(dateStr, 1, 4)),
                                  ParseInt(SubSeq(dateStr, 6, 7)), 1))

\* The day-bucket chart over the window of the call.
DayChartOfCall ==
    usageChart(dailyStats,
               ChartRange(call.period, call.bucketBy, call.timeRange),
               Some("day"))

DayUserChartOfCall ==
    userChart(dailyStats,
              ChartRange(call.period, call.bucketBy, call.timeRange),
              IF call.topN = Absent THEN DefaultTopN ELSE call.topN[1],
              Some("day")).chartData

\* The positions of the day points that fall into the bucket.
DayPointsOf(dayDates, bucketDate, bucketBy) ==
    {j \in 1..Len(dayDates) : BucketOfDate(dayDates[j], bucketBy) = bucketDate}

BucketsMatchDays(points, days, bucketBy) ==
    /\ {points[i].date : i \in 1..Len(points)}
         = {BucketOfDate(days[j].date, bucketBy) : j \in 1..Len(days)}
    /\ \A i \in 1..Len(points) :
         /\ points[i].totalTokens =
              SumSet(DayPointsOf([j \in 1..Len(days) |-> days[j].date],
                                 points[i].date, bucketBy),
                     [j \in 1..Len(days) |-> days[j].totalTokens])
         /\ points[i].totalCost =
              SumSet(DayPointsOf([j \in 1..Len(days) |-> days[j].date],
                                 points[i].date, bucketBy),
                     [j \in 1..Len(days) |-> days[j].totalCost])

UserBucketsMatchDays(entries, days, names, bucketBy) ==
    \A i \in 1..Len(entries) : \A name \in names :
        entries[i][name] =
            SumSet(DayPointsOf([j \in 1..Len(days) |-> days[j][DateKey]],
                               entries[i][DateKey], bucketBy),
                   [j \in 1..Len(days) |-> days[j][name]])

\* C10: for the same records and window, every week (month) point of the
\* chart has the totalTokens and the reported totalCost of the sum of the day
\* points whose date falls into that week (month), and each user's cost in
\* the per-user chart adds up in the same way.
C10_BucketsAddUpFromDays ==
    /\ (call.op = "getDailyUsageChart" /\ Coarsens(call.bucketBy)) =>
           BucketsMatchDays(response, DayChartOfCall, call.bucketBy[1])
    /\ (call.op = "getUserDailyUsageChart" /\ Coarsens(call.bucketBy)) =>
           UserBucketsMatchDays(response.chartData, DayUserChartOfCall,
               {response.users[i].displayName : i \in 1..Len(response.users)},
               call.bucketBy[1])

TokenBucketsMatchDays(points, days, bucketBy) ==
    /\ {points[i].date : i \in 1..Len(points)}
         = {BucketOfDate(days[j].date, bucketBy) : j \in 1..Len(days)}
    /\ \A i \in 1..Len(points) :
         points[i].totalTokens =
              SumSet(DayPointsOf([j \in 1..Len(days) |-> days[j].date],
                                 points[i].date, bucketBy),
                     [j \in 1..Len(days) |-> days[j].totalTokens])

\* What does hold of the buckets: the bucket keys and the token totals add up
\* from the day points (the costs, rounded per point, do not).
C10_TokenBucketsAddUpFromDays ==
    (call.op = "getDailyUsageChart" /\ Coarsens(call.bucketBy)) =>
        TokenBucketsMatchDays(response, DayChartOfCall, call.bucketBy[1])

----------------------------------------------------------------------------
(* Specification SpecDates: the window resolver over a range of clock days *)

\* First clock day and number of further days the resolver is checked on.
FirstNowDay == DaysFromCivil(2024, 2, 20)

NowDaySpan == 40

InitDates ==
    /\ nowDay \in FirstNowDay..(FirstNowDay + NowDaySpan)
    /\ dailyStats = <<>>
    /\ users = {}
    /\ insightsReports = {}
    /\ apiKeys = <<>>
    /\ txn = NoTxn
    /\ call = NoCall
    /\ response = NoCall

NextDates ==
    \/ \E period \in Periods : ResolvePeriod(period)
    \/ Respond

SpecDates == InitDates /\ [][NextDates]_vars

\* Number of calendar dates in the inclusive window [startStr, endStr].
WindowDays(startStr, endStr) == ParseDate(endStr) - ParseDate(startStr) + 1

\* C7: for daily, weekly and monthly the previous window has as
\* many calendar dates as the current one and ends the day before the current
\* window starts.
C7_PreviousWindowEqualAndAdjacent ==
    (call.op = "getPeriodDateRanges" /\ call.period # "alltime") =>
        /\ WindowDays(response.previousStart, response.previousEnd)
             = WindowDays(response.currentStart, response.currentEnd)
        /\ ParseDate(response.previousEnd) + 1 = ParseDate(response.currentStart)

\* What the resolver does instead: the previous window ends on the very date
\* the current window starts on (that date lies in both), and is shorter.
C7_WindowsShareBoundaryDate ==
    (call.op = "getPeriodDateRanges" /\ call.period # "alltime") =>
        /\ response.previousEnd = response.currentStart
        /\ WindowDays(response.previousStart, response.previousEnd)
             < WindowDays(response.currentStart, response.currentEnd)

----------------------------------------------------------------------------
(* Specification SpecSync: the mutations of the dailyStats table *)

\* Most entries one batchRecordStats call carries.
MaxBatch == 2

\* Two users named "Bob" (web) and "bob" (github), and a web user whose name
\* "<<<60, 83, 86, 71>>" matches a suspicious pattern; a higher id was created later.
SyncUserDoc(id) ==
    [id          |-> id,
     slackUserId |-> <<117, 48 + id>>,
     slackTeamId |-> IF id = 2 THEN "github" ELSE "web",
     displayName |-> IF id = 1 THEN Some(<<66, 111, 98>>)
                     ELSE IF id = 2 THEN Some(<<98, 111, 98>>) ELSE Some(<<60, 83, 86, 71>>),
     createdAt   |-> 10 * id]

SyncUserIds == {1, 2, 3}

\* The users that sync.
SyncWriters == {1, 2}

\* Date.now() of a sync, and of a recordDailyStats call.
SyncTimes == {300}

RecordTimes == {200}

\* A small usage, a larger one, and one whose cost is above MAX_DAILY_COST.
SmallUsage ==
    [inputTokens |-> 1, outputTokens |-> 2, cacheCreationTokens |-> 3,
     cacheReadTokens |-> 4, totalTokens |-> 10, totalCost |-> 1,
     modelsUsed |-> <<"opus">>]

LargeUsage ==
    [inputTokens |-> 10, outputTokens |-> 20, cacheCreationTokens |-> 30,
     cacheReadTokens |-> 40, totalTokens |-> 100, totalCost |-> 8,
     modelsUsed |-> <<"sonnet">>]

AbsurdUsage == [SmallUsage EXCEPT !.totalCost = Pow2(26)]

\* A usage with a negative counter, and one with more than MAX_DAILY_TOKENS.
NegativeUsage == [SmallUsage EXCEPT !.outputTokens = -2]

TooManyTokens == [SmallUsage EXCEPT !.totalTokens = MAX_DAILY_TOKENS + 1]

\* An entry of args.stats.
SyncEntry(date, u) ==
    [date                |-> date,
     utcDate             |-> Absent,
     inputTokens         |-> u.inputTokens,
     outputTokens        |-> u.outputTokens,
     cacheCreationTokens |-> u.cacheCreationTokens,
     cacheReadTokens     |-> u.cacheReadTokens,
     totalTokens         |-> u.totalTokens,
     totalCost           |-> u.totalCost,
     modelsUsed          |-> u.modelsUsed]

SyncEntries ==
    {SyncEntry(FormatDate(RankNowDay), SmallUsage),
     SyncEntry(FormatDate(RankNowDay - 1), LargeUsage)}

\* The batches of valid entries, duplicates of a date included.
SyncBatches == UNION {[1..n -> SyncEntries] : n \in 0..MaxBatch}

\* Batches with an entry the validation refuses: alone, behind a valid entry,
\* and ahead of another refused entry.
RejectedBatches ==
    {<<SyncEntry(FormatDate(RankNowDay), AbsurdUsage)>>,
     <<SyncEntry(FormatDate(RankNowDay - 1), LargeUsage),
       SyncEntry(FormatDate(RankNowDay), NegativeUsage)>>,
     <<SyncEntry(FormatDate(RankNowDay - 1), TooManyTokens),
       SyncEntry(FormatDate(RankNowDay), AbsurdUsage)>>}

\* The arguments of recordDailyStats.
RecordArgs ==
    {[userId |-> id] @@ SyncEntry(FormatDate(RankNowDay), u) :
        id \in SyncWriters, u \in {SmallUsage, AbsurdUsage}}
    \cup {[userId |-> 1] @@ SyncEntry(FormatDate(RankNowDay), NegativeUsage)}

SyncNames == {<<66, 111, 98>>, <<60, 83, 86, 71>>}

InitSync ==
    /\ nowDay = RankNowDay
    /\ dailyStats = <<>>
    /\ users = {SyncUserDoc(id) : id \in SyncUserIds}
    /\ insightsReports = {}
    /\ apiKeys = <<>>
    /\ txn = NoTxn
    /\ call = NoCall
    /\ response = NoCall

NextSync ==
    \/ \E args \in RecordArgs, now \in RecordTimes :
          RecordDailyStats(args, now)
    \/ \E userId \in SyncWriters, stats \in SyncBatches \cup RejectedBatches,
          now \in SyncTimes :
          BatchRecordStats(userId, stats, now)
    \/ \E displayName \in SyncNames : DeleteStatsByDisplayName(displayName)
    \/ CleanupFakeData
    \/ MergeDuplicateUsers
    \/ Respond

SpecSync == InitSync /\ [][NextSync]_vars

----------------------------------------------------------------------------
(* Properties of the mutations (specification SpecSync) *)

\* The step is a batchRecordStats call that returned success.
SyncSucceeds ==
    /\ call = NoCall
    /\ call'.op = "batchRecordStats"
    /\ "success" \in DOMAIN response'

\* The document carries the entry's fields.
CarriesEntry(doc, entry) ==
    /\ doc.date = entry.date
    /\ doc.utcDate = entry.utcDate
    /\ doc.inputTokens = entry.inputTokens
    /\ doc.outputTokens = entry.outputTokens
    /\ doc.cacheCreationTokens = entry.cacheCreationTokens
    /\ doc.cacheReadTokens = entry.cacheReadTokens
    /\ doc.totalTokens = entry.totalTokens
    /\ doc.totalCost = entry.totalCost
    /\ doc.modelsUsed = entry.modelsUsed

\* C11: a successful batchRecordStats(u, S) leaves as u's records exactly one
\* record per entry of S, in the order of S, each with the entry's fields and
\* all with the call's one timestamp; the records of every other user are the
\* same as before, in the same order; the call reports deleted = the number of
\* u's earlier records and inserted = |S|.
C11_SyncReplacesTheUsersRecords ==
    [][SyncSucceeds =>
          /\ Len(StatsByUser(dailyStats', call'.userId)) = Len(call'.stats)
          /\ \A i \in 1..Len(call'.stats) :
                /\ CarriesEntry(StatsByUser(dailyStats', call'.userId)[i],
                                call'.stats[i])
                /\ StatsByUser(dailyStats', call'.userId)[i].updatedAt
                       = call'.now
          /\ \A id \in SyncUserIds \ {call'.userId} :
                StatsByUser(dailyStats', id) = StatsByUser(dailyStats, id)
          /\ response'.success
          /\ response'.deleted = Len(StatsByUser(dailyStats, call'.userId))
          /\ response'.inserted = Len(call'.stats)]_vars

\* A sync of two entries has replaced an earlier record of the user, and the
\* table also holds a record of another user.
C11_SyncReplacedBesideAnotherUser ==
    /\ call.op = "batchRecordStats"
    /\ "success" \in DOMAIN response
    /\ response.deleted >= 1
    /\ response.inserted = 2
    /\ \E k \in 1..Len(dailyStats) : dailyStats[k].userId # call.userId
    /\ \E k \in 1..Len(dailyStats) :
          /\ dailyStats[k].userId = call.userId
          /\ dailyStats[k].updatedAt = call.now

\* No two records of the table are for the same user and date.
OnePerUserAndDate(table) ==
    \A i \in 1..Len(table) : \A j \in 1..Len(table) :
        (table[i].userId = table[j].userId /\ table[i].date = table[j].date)
            => i = j

\* C12: whatever sequence of recordDailyStats, batchRecordStats,
\* deleteStatsByDisplayName, cleanupFakeData and mergeDuplicateUsers has run,
\* the table holds at most one record for each user and date.
C12_OneRecordPerUserAndDate == OnePerUserAndDate(dailyStats)

\* The entries of the batch are for different dates.
DistinctDates(stats) ==
    \A i \in 1..Len(stats) : \A j \in 1..Len(stats) :
        stats[i].date = stats[j].date => i = j

\* What does hold: a step breaks the uniqueness only when it is a successful
\* batchRecordStats whose entries repeat a date.
C12_OnlyARepeatedDateInABatchBreaksIt ==
    [][(OnePerUserAndDate(dailyStats) /\ ~ OnePerUserAndDate(dailyStats'))
          => (SyncSucceeds /\ ~ DistinctDates(call'.stats))]_vars

\* Every counter of every record of the table is zero or more.
NoNegativeCounter(table) ==
    \A k \in 1..Len(table) :
        /\ table[k].inputTokens >= 0
        /\ table[k].outputTokens >= 0
        /\ table[k].cacheCreationTokens >= 0
        /\ table[k].cacheReadTokens >= 0
        /\ table[k].totalTokens >= 0
        /\ table[k].totalCost >= 0

\* C25: whatever sequence of recordDailyStats, batchRecordStats and
\* mergeDuplicateUsers has run, every stored usage record has its six counters
\* (input, output, cache-creation, cache-read and total tokens, total cost)
\* greater than or equal to zero.
C25_StoredCountersNonNegative == NoNegativeCounter(dailyStats)

\* What does hold: the only step that brings a negative counter into the
\* table is a recordDailyStats call.
C25_OnlyRecordDailyStatsStoresNegatives ==
    [][(NoNegativeCounter(dailyStats) /\ ~ NoNegativeCounter(dailyStats'))
          => call'.op = "recordDailyStats"]_vars

\* The entry has a negative counter, more than 1,000,000,000 total tokens or
\* a total cost above 100,000 dollars.
OutOfBounds(entry) ==
    \/ entry.inputTokens < 0
    \/ entry.outputTokens < 0
    \/ entry.cacheCreationTokens < 0
    \/ entry.cacheReadTokens < 0
    \/ entry.totalTokens < 0
    \/ entry.totalCost < 0
    \/ entry.totalTokens > 1000000000
    \/ entry.totalCost > 100000 * 100 * QuarterCents

\* The step is a batchRecordStats call with an entry out of bounds.
SyncOutOfBounds ==
    /\ call = NoCall
    /\ call'.op = "batchRecordStats"
    /\ \E i \in 1..Len(call'.stats) : OutOfBounds(call'.stats[i])

\* C28: a batchRecordStats call with an entry that has a negative counter,
\* totalTokens above 1,000,000,000 or totalCost above 100,000 fails with an
\* error that names the date of such an entry (the first of the batch), and
\* the table is left exactly as it was: no record of the user is deleted and
\* no entry of the batch is inserted.
C28_InvalidBatchWritesNothing ==
    [][SyncOutOfBounds =>
          /\ "error" \in DOMAIN response'
          /\ \E i \in 1..Len(call'.stats) :
                /\ OutOfBounds(call'.stats[i])
                /\ \A j \in 1..(i - 1) : ~ OutOfBounds(call'.stats[j])
                /\ response'.error.date = call'.stats[i].date
          /\ dailyStats' = dailyStats]_vars

\* A batch whose second entry is refused was sent for a user that has
\* records; the first entry is valid and differs from what is stored.
C28_RefusedBehindValidEntry ==
    /\ call.op = "batchRecordStats"
    /\ "error" \in DOMAIN response
    /\ Len(call.stats) = 2
    /\ ~ OutOfBounds(call.stats[1])
    /\ StatsByUser(dailyStats, call.userId) # <<>>
    /\ \A k \in 1..Len(dailyStats) :
          dailyStats[k].userId = call.userId
              => dailyStats[k].date # call.stats[1].date

----------------------------------------------------------------------------
(* Specification SpecTxn: queries while a sync is being written *)

\* Date.now() of the syncs of this specification.
TxnTimes == {300}

InitTxn ==
    /\ nowDay = RankNowDay
    /\ dailyStats = <<>>
    /\ users = {SyncUserDoc(id) : id \in SyncUserIds}
    /\ insightsReports = {}
    /\ apiKeys = <<>>
    /\ txn = NoTxn
    /\ call = NoCall
    /\ response = NoCall

\* The mutation runs its handler one database write at a time and commits at
\* the end; the queries run at any moment in between.
NextTxn ==
    \/ \E userId \in SyncWriters, stats \in SyncBatches, now \in TxnTimes :
          BatchStart(userId, stats, now)
    \/ BatchDelete
    \/ BatchInsert
    \/ BatchCommit
    \/ GetAllTimeLeaderboard(Absent, Absent)
    \/ GetStatsSummary("alltime")
    \/ GetDailyUsageChart("alltime", Some("day"), Some("all"))
    \/ Respond

SpecTxn == InitTxn /\ [][NextTxn]_vars

----------------------------------------------------------------------------
(* Properties of the queries during a sync (specification SpecTxn) *)

TxnQueries == {"getAllTimeLeaderboard", "getStatsSummary", "getDailyUsageChart"}

\* The tokens the answered query shows in all: the sum over the entries of
\* the leaderboard, the total of the summary, the sum over the chart's points.
ShownTokens ==
    IF call.op = "getStatsSummary" THEN response.totalTokens
    ELSE SumTokens(0, response)

\* The tokens of the records of the users that are not syncing.
OthersTokens ==
    SumTokens(0, SelectSeq(dailyStats, LAMBDA d : d.userId # txn.userId))

----------------------------------------------------------------------------
(* Specification SpecTeam: team filters, missing users and getUserRank *)

\* Offsets from the clock day: a day of every window, and a day that only the
\* monthly and the all-time windows reach.
TeamDayOffsets == {0, -10}

\* Either usage sample on the clock day; on the earlier day the records of
\* the sample synced first.
TeamDayUsages ==
    {p \in TeamDayOffsets \X UsageSamples : p[1] = 0 \/ p[2].updatedAt = 100}

TeamRecords ==
    {StatDoc(id, FormatDate(RankNowDay + p[1]), Absent, p[2]) :
        id \in UserIds, p \in TeamDayUsages}

\* The user store: complete, or with one user deleted whose records stayed.
TeamStores ==
    {{UserDoc(id) : id \in UserIds \ gone} :
        gone \in {g \in SUBSET UserIds : Cardinality(g) <= 1}}

TeamFilters == {Absent, Some("T1"), Some("T2")}

InitTeam ==
    /\ nowDay = RankNowDay
    /\ dailyStats \in Tables(TeamRecords)
    /\ users \in TeamStores
    /\ insightsReports = {}
    /\ apiKeys = <<>>
    /\ txn = NoTxn
    /\ call = NoCall
    /\ response = NoCall

NextTeam ==
    \/ \E teamId \in TeamFilters : GetAllTimeLeaderboard(teamId, Absent)
    \/ \E teamId \in TeamFilters : GetWeeklyLeaderboard(teamId, Absent)
    \/ \E userId \in UserIds, period \in UserRankPeriods :
          GetUserRank(userId, period)
    \/ Respond

SpecTeam == InitTeam /\ [][NextTeam]_vars

----------------------------------------------------------------------------
(* Properties of the team filter and of getUserRank (specification SpecTeam) *)

TeamBoardOps == {"getAllTimeLeaderboard", "getWeeklyLeaderboard"}

\* The answer of the same query without a team filter.
UnfilteredBoard ==
    IF call.op = "getWeeklyLeaderboard"
    THEN getWeeklyLeaderboard(Absent, Absent).value
    ELSE getAllTimeLeaderboard(Absent, Absent)

\* The user of the entry is stored with this team.
OfTeam(entry, team) ==
    \E u \in users : u.id = entry.userId /\ u.slackTeamId = team

\* The two entries agree on everything but the rank and the rank change.
SameAggregates(e, f) ==
    \A field \in DOMAIN e \ {"rank", "rankChange"} : e[field] = f[field]

\* The filtered board is the unfiltered one restricted to the team, in the
\* same order, renumbered from 1.
FilteredFrom(board, full, team) ==
    /\ Len(board) = Len(SelectSeq(full, LAMBDA e : OfTeam(e, team)))
    /\ \A i \in 1..Len(board) :
          /\ SameAggregates(board[i],
                            SelectSeq(full, LAMBDA e : OfTeam(e, team))[i])
          /\ board[i].rank = i

\* C15: with a team filter T the leaderboard holds exactly the stored users of
\* team T that have a record in the window, each with the aggregate values it
\* has in the unfiltered leaderboard, in the same relative order, with ranks
\* 1..M counted within the filtered list.
C15_TeamFilterAfterAggregation ==
    (call.op \in TeamBoardOps /\ call.teamId # Absent) =>
        /\ FilteredFrom(response, UnfilteredBoard, call.teamId[1])
        /\ {response[i].userId : i \in 1..Len(response)}
               = {id \in UserIds :
                     /\ Listed(id, call.teamId)
                     /\ UserRows(id, call.period) # {}}

\* A team's leaderboard of two users, both ranked lower in the unfiltered
\* leaderboard because a user of another team leads it.
C15_TeamRankedBelowAnotherTeam ==
    /\ call.op \in TeamBoardOps
    /\ call.teamId = Some("T1")
    /\ Len(response) = 2
    /\ Len(UnfilteredBoard) = 3
    /\ UnfilteredBoard[1].userId = 3

\* Some record of the window belongs to a user that is not stored.
MissingUserInWindow(period) ==
    \E k \in 1..Len(dailyStats) :
        /\ InWindow(dailyStats[k], period)
        /\ GetUser(dailyStats[k].userId) = {}

\* C16: when a user with a record in the window is missing from the user
\* store, the leaderboard query still answers: it lists exactly the stored
\* users (of the team, if one is given) with a record in the window, each with
\* the aggregates of its own records, ranked 1..M without a gap.
C16_MissingUserIsSkipped ==
    (call.op \in TeamBoardOps /\ MissingUserInWindow(call.period)) =>
        /\ {response[i].userId : i \in 1..Len(response)}
               = {id \in UserIds :
                     /\ Listed(id, call.teamId)
                     /\ UserRows(id, call.period) # {}}
        /\ \A i \in 1..Len(response) :
              /\ EntryAggregates(response[i],
                                 UserRows(response[i].userId, call.period))
              /\ response[i].rank = i

\* The first record of the table belongs to a missing user, and the two
\* stored users behind it are both listed.
C16_MissingUserAheadOfTwoListed ==
    /\ call.op = "getAllTimeLeaderboard"
    /\ call.teamId = Absent
    /\ Len(dailyStats) = 3
    /\ GetUser(dailyStats[1].userId) = {}
    /\ Len(response) = 2

\* The period of getUserRank in the spelling of the other queries.
RankPeriod(period) == IF period = "allTime" THEN "alltime" ELSE period

\* The stored users of the team that have a record in the window.
TeamParticipants(team, period) ==
    {id \in UserIds : Listed(id, Some(team)) /\ UserRows(id, period) # {}}

\* The result of getUserRank for a stored user of this team.
RankWithinTeam(result, userId, team, period) ==
    /\ ~ result.isNull
    /\ result.totalParticipants = Cardinality(TeamParticipants(team, period))
    /\ (result.rank # Absent) <=> (UserRows(userId, period) # {})
    /\ (result.stats # Absent) <=> (result.rank # Absent)
    /\ result.rank # Absent =>
          /\ 1 <= result.rank[1]
          /\ result.rank[1] <= result.totalParticipants
          /\ \E e \in Range(buildLeaderboardFromStats(dailyStats,
                                userRankStart(call.period), getTomorrow,
                                Some(team))) :
                /\ e.userId = userId
                /\ e.rank = result.rank[1]
                /\ EntryAggregates(e, UserRows(userId, period))
                /\ result.stats[1] = UserRankStats(e)

\* C18: getUserRank(userId, period) returns null when the user is not stored;
\* otherwise totalParticipants is the number of users of that user's team with
\* a record in the period's window, rank and stats are both null when the
\* user has no record in the window, and otherwise rank lies in
\* 1..totalParticipants and is the user's rank among the team, and stats are
\* the aggregate of the user's records in the window.
C18_UserRankWithinOwnTeam ==
    call.op = "getUserRank" =>
        IF GetUser(call.userId) = {} THEN response = NullResult
        ELSE \A u \in GetUser(call.userId) :
                RankWithinTeam(response, call.userId, u.slackTeamId,
                               RankPeriod(call.period))

\* A user ranked first of the two participants of its team while a user of
\* another team has a record in the window too.
C18_RankedFirstOfTwoInTeam ==
    /\ call.op = "getUserRank"
    /\ GetUser(call.userId) # {}
    /\ response.rank = Some(1)
    /\ response.totalParticipants = 2
    /\ UserRows(3, RankPeriod(call.period)) # {}
    /\ GetUser(3) # {}

\* getUserRank answered null for a user that is not stored.
C18_NullForMissingUser ==
    /\ call.op = "getUserRank"
    /\ response = NullResult

----------------------------------------------------------------------------
(* route.ts: the Slack command's leaderboard and mystats subcommands *)

\* The period words the command understands, as code units.
\* "daily"
DailyWord == <<100, 97, 105, 108, 121>>

\* "today"
TodayWord == <<116, 111, 100, 97, 121>>

\* "weekly"
WeeklyWord == <<119, 101, 101, 107, 108, 121>>

\* "week"
WeekWord == <<119, 101, 101, 107>>

\* "monthly"
MonthlyWord == <<109, 111, 110, 116, 104, 108, 121>>

\* "month"
MonthWord == <<109, 111, 110, 116, 104>>

\* "alltime"
AllTimeWord == <<97, 108, 108, 116, 105, 109, 101>>

\* "all"
AllWord == <<97, 108, 108>>

\* args[0]?.toLowerCase(): Absent (undefined) when no word follows the
\* subcommand.
periodArgOf(args) == IF args = <<>> THEN Absent ELSE Some(toLowerCase(args[1]))

\* let period = "weekly"; the if chain of the leaderboard subcommand.
leaderboardPeriod(periodArg) ==
    IF periodArg = Some(DailyWord) \/ periodArg = Some(TodayWord) THEN "daily"
    ELSE IF periodArg = Some(WeeklyWord) \/ periodArg = Some(WeekWord)
    THEN "weekly"
    ELSE IF periodArg = Some(MonthlyWord) \/ periodArg = Some(MonthWord)
    THEN "monthly"
    ELSE IF periodArg = Some(AllTimeWord) \/ periodArg = Some(AllWord)
    THEN "alltime"
    ELSE "weekly"

\* let period = "weekly"; the if chain of the mystats subcommand.
mystatsPeriod(periodArg) ==
    IF periodArg = Some(DailyWord) \/ periodArg = Some(TodayWord) THEN "daily"
    ELSE IF periodArg = Some(WeeklyWord) \/ periodArg = Some(WeekWord)
    THEN "weekly"
    ELSE IF periodArg = Some(MonthlyWord) \/ periodArg = Some(MonthWord)
    THEN "monthly"
    ELSE "weekly"

\* const queryArgs = { teamId, limit: 10 }
SlackLimit == 10

\* The query the leaderboard subcommand sends for the period.
slackLeaderboardQuery(period, teamId) ==
    CASE period = "daily" ->
             getDailyLeaderboard(Some(teamId), Some(SlackLimit)).value
      [] period = "weekly" ->
             getWeeklyLeaderboard(Some(teamId), Some(SlackLimit)).value
      [] period = "monthly" ->
             getMonthlyLeaderboard(Some(teamId), Some(SlackLimit)).value
      [] OTHER -> getAllTimeLeaderboard(Some(teamId), Some(SlackLimit))

\* entry.displayName || `User ${entry.slackUserId.slice(-4)}`
SlackUsername(entry) ==
    IF entry.displayName = Absent \/ entry.displayName = Some(<<>>)
    THEN UserPrefix \o SliceLast(entry.slackUserId, 4)
    ELSE entry.displayName[1]

SlackEntries(leaderboard) ==
    [i \in 1..Len(leaderboard) |->
        [rank        |-> leaderboard[i].rank,
         username    |-> SlackUsername(leaderboard[i]),
         slackUserId |-> leaderboard[i].slackUserId,
         totalTokens |-> leaderboard[i].totalTokens,
         totalCost   |-> leaderboard[i].totalCost]]

\* formatLeaderboard(entries, period), sent to the channel.
slackLeaderboardFor(period, teamId) ==
    [blocks  |-> "leaderboard",
     period  |-> period,
     entries |-> SlackEntries(slackLeaderboardQuery(period, teamId))]

slackLeaderboard(teamId, args) ==
    slackLeaderboardFor(leaderboardPeriod(periodArgOf(args)), teamId)

\* getUserBySlackId: the by_slack_id index read with .unique().
getUserBySlackId(slackUserId, slackTeamId) ==
    {u \in users : u.slackUserId = slackUserId /\ u.slackTeamId = slackTeamId}

\* setMonth(getMonth() - 1) on a day number: the same day of the month before,
\* running over into the next month when that month is shorter.
MonthBefore(c) == DaysFromCivil(c.y, c.m - 1, 1) + c.d - 1

\* getDateRange(period) of lib/formatters, on a server whose zone is UTC.
getDateRange(period) ==
    [startDate |->
        CASE period = "daily" -> FormatDate(nowDay)
          [] period = "weekly" -> FormatDate(nowDay - 7)
          [] period = "monthly" -> FormatDate(MonthBefore(CivilFromDays(nowDay)))
          [] period = "alltime" -> FormatDate(DaysFromCivil(2020, 1, 1)),
     endDate |-> FormatDate(nowDay)]

\* rankResult?.rank ?? 0
RankOrZero(rankResult) ==
    IF rankResult.isNull \/ rankResult.rank = Absent THEN 0
    ELSE rankResult.rank[1]

\* rankResult?.totalParticipants ?? 0
ParticipantsOrZero(rankResult) ==
    IF rankResult.isNull THEN 0 ELSE rankResult.totalParticipants

\* formattedStats: null unless the user has tokens in the range.
formattedStats(stats, userRank, totalParticipants) ==
    IF stats.totalTokens > 0
    THEN Some([rank |-> IF userRank # 0 THEN userRank
                        ELSE totalParticipants + 1,
               totalParticipants   |-> totalParticipants,
               totalTokens         |-> stats.totalTokens,
               totalCost           |-> stats.totalCost,
               inputTokens         |-> stats.inputTokens,
               outputTokens        |-> stats.outputTokens,
               cacheCreationTokens |-> stats.cacheCreationTokens,
               cacheReadTokens     |-> stats.cacheReadTokens])
    ELSE Absent

mystatsOf(userId, period, range, rankResult) ==
    [blocks |-> "userStats",
     period |-> period,
     stats  |-> formattedStats(
                    getUserAggregateStats(userId, range.startDate,
                                          range.endDate),
                    RankOrZero(rankResult), ParticipantsOrZero(rankResult))]

mystatsFor(found, period) ==
    IF found = {} THEN [blocks |-> "setup"]
    ELSE mystatsOf((CHOOSE u \in found : TRUE).id, period,
                   getDateRange(period),
                   getUserRank((CHOOSE u \in found : TRUE).id, period))

slackMyStats(slackUserId, teamId, args) ==
    mystatsFor(getUserBySlackId(slackUserId, teamId),
               mystatsPeriod(periodArgOf(args)))

SlackLeaderboard(teamId, args) ==
    Returns([op |-> "slackLeaderboard", teamId |-> teamId, args |-> args],
            slackLeaderboard(teamId, args))

SlackMyStats(slackUserId, teamId, args) ==
    Returns([op |-> "slackMyStats", slackUserId |-> slackUserId,
             teamId |-> teamId, args |-> args],
            slackMyStats(slackUserId, teamId, args))

\* getPageData behind its argument validator: v.union of the four literals.
RequestPageData(period, limit) ==
    IF period \in Periods THEN GetPageData(period, limit)
    ELSE Returns([op |-> "getPageData", period |-> period, teamId |-> Absent,
                  limit |-> limit, scans |-> 0],
                 Threw("ArgumentValidationError"))

----------------------------------------------------------------------------
(* Specification SpecSlack: the entry points that take a period *)

\* What follows the subcommand: nothing, "Daily", "today", "week", "monthly",
\* "all", and "yearly", which is no period.
SlackArgs ==
    {<<>>, <<<<68, 97, 105, 108, 121>>>>, <<TodayWord>>, <<WeekWord>>,
     <<MonthlyWord>>, <<AllWord>>, <<<<121, 101, 97, 114, 108, 121>>>>}

\* The Slack users "U0001" and "U0003" and the teams of the command.
SlackUserIds == {UserDoc(1).slackUserId, UserDoc(3).slackUserId}

SlackTeams == {"T1", "T2"}

\* The period values a client sends to getPageData.
PageDataPeriods == Periods \cup {"yearly"}

InitSlack ==
    /\ nowDay = RankNowDay
    /\ dailyStats \in Tables(TeamRecords)
    /\ users = {UserDoc(id) : id \in UserIds}
    /\ insightsReports = {}
    /\ apiKeys = <<>>
    /\ txn = NoTxn
    /\ call = NoCall
    /\ response = NoCall

NextSlack ==
    \/ \E teamId \in SlackTeams, args \in SlackArgs :
          SlackLeaderboard(teamId, args)
    \/ \E slackUserId \in SlackUserIds, teamId \in SlackTeams,
          args \in SlackArgs :
          SlackMyStats(slackUserId, teamId, args)
    \/ \E period \in PageDataPeriods : RequestPageData(period, Absent)
    \/ Respond

SpecSlack == InitSlack /\ [][NextSlack]_vars

----------------------------------------------------------------------------
(* Properties of the period arguments (specification SpecSlack) *)

LeaderboardWords ==
    {DailyWord, TodayWord, WeeklyWord, WeekWord, MonthlyWord, MonthWord,
     AllTimeWord, AllWord}

MyStatsWords ==
    {DailyWord, TodayWord, WeeklyWord, WeekWord, MonthlyWord, MonthWord}

\* The call carries a period that its entry point does not know.
UnknownPeriod ==
    \/ /\ call.op = "slackLeaderboard"
       /\ call.args # <<>>
       /\ toLowerCase(call.args[1]) \notin LeaderboardWords
    \/ /\ call.op = "slackMyStats"
       /\ call.args # <<>>
       /\ toLowerCase(call.args[1]) \notin MyStatsWords
    \/ /\ call.op = "getPageData"
       /\ call.period \notin Periods

\* C17: every entry point that takes a period answers an unrecognised period
\* with an error; none answers it with the data of a default period.
C17_UnknownPeriodIsRejected ==
    (call.op \in {"slackLeaderboard", "slackMyStats", "getPageData"}
        /\ UnknownPeriod)
        => "error" \in DOMAIN response

\* What does hold: getPageData's validator rejects an unknown period, and the
\* Slack command answers an unknown period word as it answers "weekly".
C17_UnknownSlackPeriodActsAsWeekly ==
    /\ (call.op = "getPageData" /\ UnknownPeriod)
           => "error" \in DOMAIN response
    /\ (call.op = "slackLeaderboard" /\ UnknownPeriod)
           => response = slackLeaderboard(call.teamId, <<WeeklyWord>>)
    /\ (call.op = "slackMyStats" /\ UnknownPeriod)
           => response = slackMyStats(call.slackUserId, call.teamId,
                                      <<WeeklyWord>>)

----------------------------------------------------------------------------
(* Specification SpecSeries: per-user chart series under look-alike names *)

SeriesUserIds == {1, 2, 3, 4}

\* The stored users: "al ice" (1), "alice" (2) and "!?" (4); user 3 has
\* records and no user document.
SeriesStored == {1, 2, 4}

SeriesUserDoc(id) ==
    [id          |-> id,
     slackUserId |-> <<85, 48, 48, 48, 48 + id>>,
     slackTeamId |-> "T1",
     displayName |-> IF id = 1 THEN Some(<<97, 108, 32, 105, 99, 101>>)
                     ELSE IF id = 2 THEN Some(<<97, 108, 105, 99, 101>>)
                     ELSE Some(<<33, 63>>)]

\* Each user's daily usage costs a whole number of cents: id cents.
SeriesUsage(id) ==
    [inputTokens |-> id, outputTokens |-> 0, cacheCreationTokens |-> 0,
     cacheReadTokens |-> 0, totalTokens |-> id,
     totalCost |-> id * QuarterCents,
     modelsUsed |-> <<"opus">>, updatedAt |-> 100]

SeriesDayOffsets == {0, -1}

SeriesRecords ==
    {StatDoc(id, FormatDate(RankNowDay + off), Absent, SeriesUsage(id)) :
        id \in SeriesUserIds, off \in SeriesDayOffsets}

SeriesTopNs == {Absent, Some(2)}

SeriesBuckets == {Absent, Some("day")}

SeriesTimeRanges == {Absent, Some("all")}

InitSeries ==
    /\ nowDay = RankNowDay
    /\ dailyStats \in Tables(SeriesRecords)
    /\ users = {SeriesUserDoc(id) : id \in SeriesStored}
    /\ insightsReports = {}
    /\ apiKeys = <<>>
    /\ txn = NoTxn
    /\ call = NoCall
    /\ response = NoCall

NextSeries ==
    \/ \E topN \in SeriesTopNs, bucketBy \in SeriesBuckets,
          timeRange \in SeriesTimeRanges :
          GetUserDailyUsageChart("monthly", topN, bucketBy, timeRange)
    \/ \E bucket \in BucketModes, cumulative \in BOOLEAN :
          MemberUsageChart("monthly", bucket, "all", cumulative)
    \/ Respond

SpecSeries == InitSeries /\ [][NextSeries]_vars

----------------------------------------------------------------------------
(* Properties of the per-user series (specification SpecSeries) *)

\* The positions of the user's records of that day (the windows of this
\* specification's calls hold every record).
DayRows(userId, date) ==
    {k \in 1..Len(dailyStats) :
        /\ dailyStats[k].userId = userId
        /\ getEffectiveDate(dailyStats[k]) = date}

\* The point carries, under the user's series key, the user's summed cost of
\* the point's day (0 without a record).
CarriesSeries(point, user) ==
    /\ user.displayName \in DOMAIN point
    /\ point[user.displayName]
           = CostInOrder(0, DayRows(user.userId, point[DateKey]))

\* C19: every chart point getUserDailyUsageChart returns carries, for every
\* user of the returned users list, a value under that user's series key that
\* is the user's summed cost in the point's bucket, 0 when the user has no
\* record there.
C19_SeriesComplete ==
    call.op = "getUserDailyUsageChart" =>
        \A i \in 1..Len(response.chartData) :
            \A j \in 1..Len(response.users) :
                CarriesSeries(response.chartData[i], response.users[j])

\* The user's series key is the key of no other user of the list.
OwnKey(list, j) ==
    \A k \in 1..Len(list) : list[k].displayName = list[j].displayName => k = j

\* What does hold: the key of every listed user is present in every point,
\* and a user whose key no other listed user shares has its own summed cost
\* (0 without a record) under it.
C19_SeriesCompleteUnderOwnKey ==
    call.op = "getUserDailyUsageChart" =>
        \A i \in 1..Len(response.chartData) :
            \A j \in 1..Len(response.users) :
                /\ response.users[j].displayName
                       \in DOMAIN response.chartData[i]
                /\ OwnKey(response.users, j) =>
                       CarriesSeries(response.chartData[i], response.users[j])

\* The key is non-empty and made of letters, digits, "_" and "-".
WellFormedKey(key) ==
    /\ key # <<>>
    /\ \A n \in 1..Len(key) :
          \/ key[n] \in 48..57
          \/ key[n] \in 65..90
          \/ key[n] \in 97..122
          \/ key[n] \in {45, 95}

\* C20: the series keys of the returned users list are non-empty, contain
\* only characters of [a-zA-Z0-9_-], and no two users of the list share a key.
C20_SeriesKeysDistinct ==
    call.op = "getUserDailyUsageChart" =>
        \A j \in 1..Len(response.users) :
            /\ WellFormedKey(response.users[j].displayName)
            /\ OwnKey(response.users, j)

\* What does hold: every key is non-empty and within the character set.
C20_SeriesKeysWellFormed ==
    call.op = "getUserDailyUsageChart" =>
        \A j \in 1..Len(response.users) :
            WellFormedKey(response.users[j].displayName)

----------------------------------------------------------------------------
(* apiKeys.ts: the API keys of a user *)

MaxKeys == 3

\* The users that own keys, and the values Date.now() takes.
KeyUsers == {1, 2}
KeyTimes == {300, 400}

\* The 64 hex digits generateApiKey draws, cut to their first two.
FullKeys == {<<97, 49>>}

\* crypto.subtle.digest("SHA-256", ...) in hex: a value that is equal for
\* equal keys only.
Sha256Hex(fullKey) == [sha256 |-> fullKey]

\* fullKey.substring(0, 8), on the digits the model keeps.
keyPrefixOf(fullKey) == SubSeq(fullKey, 1, 1)

\* What createApiKey receives: a hash and a prefix computed by the client.
ClientKeys ==
    {[keyHash |-> Sha256Hex(<<99, 51>>), keyPrefix |-> <<99>>]}

\* !key.revokedAt: the field is absent, or holds a falsy number.
NotRevoked(key) == key.revokedAt = Absent \/ key.revokedAt = Some(0)

\* withIndex("by_user", (q) => q.eq("userId", userId)).collect()
KeysOfUser(keys, userId) == SelectSeq(keys, LAMBDA k : k.userId = userId)

\* A variant of revokeActiveKeys that leaves every key as it is.
revokeNoKeys(keys, userId, now) == keys

\* for (const key of existingKeys)
\*     if (!key.revokedAt) await ctx.db.patch(key._id, { revokedAt: now })
revokeActiveKeys(keys, userId, now) ==
    [i \in 1..Len(keys) |->
        IF keys[i].userId = userId /\ NotRevoked(keys[i])
        THEN [keys[i] EXCEPT !.revokedAt = Some(now)]
        ELSE keys[i]]

\* The _id of the next inserted document: one no document of the table has.
NewKeyId(keys) ==
    IF keys = <<>> THEN 1
    ELSE 1 + (CHOOSE n \in {keys[i].id : i \in 1..Len(keys)} :
                 \A i \in 1..Len(keys) : keys[i].id <= n)

\* ctx.db.insert("apiKeys", { userId, keyHash, keyPrefix, createdAt: now })
InsertedKey(keys, userId, keyHash, keyPrefix, now) ==
    [id |-> NewKeyId(keys), userId |-> userId, keyHash |-> keyHash,
     keyPrefix |-> keyPrefix, createdAt |-> now, revokedAt |-> Absent]

generateApiKey(keys, userId, fullKey, now) ==
    [apiKeys |-> Append(revokeActiveKeys(keys, userId, now),
                        InsertedKey(keys, userId, Sha256Hex(fullKey),
                                    keyPrefixOf(fullKey), now)),
     value   |-> [keyId     |-> NewKeyId(keys),
                  apiKey    |-> <<99, 99, 114, 97, 110, 107, 95>> \o fullKey,
                  keyPrefix |-> keyPrefixOf(fullKey)]]

createApiKey(keys, userId, keyHash, keyPrefix, now) ==
    [apiKeys |-> Append(revokeActiveKeys(keys, userId, now),
                        InsertedKey(keys, userId, keyHash, keyPrefix, now)),
     value   |-> NewKeyId(keys)]

\* ctx.db.get(args.keyId)
GetKey(keys, keyId) == SelectSeq(keys, LAMBDA k : k.id = keyId)

revokeApiKey(keys, keyId, now) ==
    IF GetKey(keys, keyId) = <<>>
    THEN [apiKeys |-> keys, value |-> Threw("API key not found")]
    ELSE IF ~ NotRevoked(GetKey(keys, keyId)[1])
    THEN [apiKeys |-> keys, value |-> Threw("API key is already revoked")]
    ELSE [apiKeys |-> [i \in 1..Len(keys) |->
                          IF keys[i].id = keyId
                          THEN [keys[i] EXCEPT !.revokedAt = Some(now)]
                          ELSE keys[i]],
          value   |-> [success |-> TRUE]]

revokeAllKeysForUser(keys, userId, now) ==
    [apiKeys |-> revokeActiveKeys(keys, userId, now),
     value   |-> [revokedCount |->
                     Len(SelectSeq(KeysOfUser(keys, userId), NotRevoked))]]

\* keys.find((k) => !k.revokedAt) || null
getActiveKeyForUser(keys, userId) ==
    IF SelectSeq(KeysOfUser(keys, userId), NotRevoked) = <<>> THEN Absent
    ELSE Some(SelectSeq(KeysOfUser(keys, userId), NotRevoked)[1])

\* A mutation of apiKeys.ts is one transaction that writes apiKeys only.
CommitsKeys(c, result) ==
    /\ call = NoCall
    /\ txn = NoTxn
    /\ call' = c
    /\ response' = result.value
    /\ apiKeys' = result.apiKeys
    /\ UNCHANGED <<nowDay, dailyStats, users, insightsReports, txn>>

GenerateApiKey(userId, fullKey, now) ==
    /\ Len(apiKeys) < MaxKeys
    /\ CommitsKeys([op |-> "generateApiKey", userId |-> userId, now |-> now],
                   generateApiKey(apiKeys, userId, fullKey, now))

CreateApiKey(userId, key, now) ==
    /\ Len(apiKeys) < MaxKeys
    /\ CommitsKeys([op |-> "createApiKey", userId |-> userId, now |-> now],
                   createApiKey(apiKeys, userId, key.keyHash, key.keyPrefix,
                                now))

RevokeApiKey(keyId, now) ==
    CommitsKeys([op |-> "revokeApiKey", keyId |-> keyId, now |-> now],
                revokeApiKey(apiKeys, keyId, now))

RevokeAllKeysForUser(userId, now) ==
    CommitsKeys([op |-> "revokeAllKeysForUser", userId |-> userId,
                 now |-> now],
                revokeAllKeysForUser(apiKeys, userId, now))

GetActiveKeyForUser(userId) ==
    Returns([op |-> "getActiveKeyForUser", userId |-> userId],
            getActiveKeyForUser(apiKeys, userId))

----------------------------------------------------------------------------
(* Specification SpecKeys: the key mutations in any order *)

InitKeys ==
    /\ nowDay = RankNowDay
    /\ dailyStats = <<>>
    /\ users = {SyncUserDoc(id) : id \in KeyUsers}
    /\ insightsReports = {}
    /\ apiKeys = <<>>
    /\ txn = NoTxn
    /\ call = NoCall
    /\ response = NoCall

NextKeys ==
    \/ \E userId \in KeyUsers, fullKey \in FullKeys, now \in KeyTimes :
          GenerateApiKey(userId, fullKey, now)
    \/ \E userId \in KeyUsers, key \in ClientKeys, now \in KeyTimes :
          CreateApiKey(userId, key, now)
    \/ \E keyId \in 1..(MaxKeys + 1), now \in KeyTimes :
          RevokeApiKey(keyId, now)
    \/ \E userId \in KeyUsers, now \in KeyTimes :
          RevokeAllKeysForUser(userId, now)
    \/ \E userId \in KeyUsers : GetActiveKeyForUser(userId)
    \/ Respond

SpecKeys == InitKeys /\ [][NextKeys]_vars

\* The keys of the user that carry no revocation time.
ActiveKeys(keys, userId) ==
    SelectSeq(KeysOfUser(keys, userId), LAMBDA k : k.revokedAt = Absent)

\* The step is a generateApiKey or createApiKey call.
IssuesKey == call = NoCall /\ call'.op \in {"generateApiKey", "createApiKey"}

\* The _id the issuing call returned.
IssuedKeyId ==
    IF call'.op = "generateApiKey" THEN response'.keyId ELSE response'

\* A revocation time that is set stays as it is.
RevocationsKept ==
    \A i \in 1..Len(apiKeys) :
        apiKeys[i].revokedAt # Absent =>
            \E j \in 1..Len(apiKeys') :
                /\ apiKeys'[j].id = apiKeys[i].id
                /\ apiKeys'[j].revokedAt = apiKeys[i].revokedAt

\* C29: after any sequence of generateApiKey, createApiKey, revokeApiKey and
\* revokeAllKeysForUser every user has at most one key without revokedAt;
\* right after generateApiKey or createApiKey for a user, the only key of that
\* user without revokedAt is the one just created; and a revokedAt that is set
\* is never cleared or changed.
C29_OneActiveKeyPerUser ==
    [][/\ \A userId \in KeyUsers : Len(ActiveKeys(apiKeys', userId)) <= 1
       /\ IssuesKey =>
             /\ Len(ActiveKeys(apiKeys', call'.userId)) = 1
             /\ ActiveKeys(apiKeys', call'.userId)[1].id = IssuedKeyId
             /\ ~ \E i \in 1..Len(apiKeys) : apiKeys[i].id = IssuedKeyId
       /\ RevocationsKept]_vars

\* A user that had an active key was issued another one at a later time, and
\* an older key of the same user was already revoked before.
C29_KeyReissued ==
    /\ call.op \in {"generateApiKey", "createApiKey"}
    /\ Len(KeysOfUser(apiKeys, call.userId)) = 3
    /\ \E i, j \in 1..Len(apiKeys) :
          /\ apiKeys[i].userId = call.userId
          /\ apiKeys[j].userId = call.userId
          /\ apiKeys[i].revokedAt = Some(300)
          /\ apiKeys[j].revokedAt = Some(400)

----------------------------------------------------------------------------
(* Specification SpecBucket: the bucket key of pairs of dates *)

\* Number of days after each first day the bucket keys are computed for.
BucketDaySpan == 20

\* The dates: around the end of February of a leap year and around the turn
\* of a year whose first week starts in the year before.
BucketDays ==
    (DaysFromCivil(2024, 2, 20)..(DaysFromCivil(2024, 2, 20) + BucketDaySpan))
    \cup
    (DaysFromCivil(2024, 12, 20)..(DaysFromCivil(2024, 12, 20) + BucketDaySpan))

\* getBucketKey on two dates with the same mode.
GetBucketKey(d1, d2, bucketBy) ==
    Returns([op |-> "getBucketKey", dates |-> <<d1, d2>>,
             bucketBy |-> bucketBy],
            <<getBucketKey(d1, bucketBy), getBucketKey(d2, bucketBy)>>)

InitBucket ==
    /\ nowDay = RankNowDay
    /\ dailyStats = <<>>
    /\ users = {}
    /\ insightsReports = {}
    /\ apiKeys = <<>>
    /\ txn = NoTxn
    /\ call = NoCall
    /\ response = NoCall

NextBucket ==
    \/ \E day1 \in BucketDays, day2 \in BucketDays, bucketBy \in BucketModes :
          GetBucketKey(FormatDate(day1), FormatDate(day2), bucketBy)
    \/ Respond

SpecBucket == InitBucket /\ [][NextBucket]_vars

\* key is the Monday of the ISO week of the day d: a Monday, at most 6 days
\* before d, 6 days before a Sunday and weekday - 1 days before another day.
IsoMondayOf(key, d) ==
    /\ key = FormatDate(ParseDate(key))
    /\ UTCDay(ParseDate(key)) = 1
    /\ ParseDate(key) <= d
    /\ d <= ParseDate(key) + 6
    /\ ParseDate(key) = IF UTCDay(d) = 0 THEN d - 6 ELSE d - (UTCDay(d) - 1)

\* key is the first day of the month of the civil date c.
MonthStartOf(key, c) == key = FormatCivil([y |-> c.y, m |-> c.m, d |-> 1])

\* The keys of two dates are in the order of the dates, as dates and as
\* strings.
KeysMonotone(d1, d2, key1, key2) ==
    ParseDate(d1) <= ParseDate(d2) =>
        /\ ParseDate(key1) <= ParseDate(key2)
        /\ StrLE(key1, key2)

\* C22: the week bucket key of a valid date d is the Monday of the ISO week
\* that contains d (6 days back from a Sunday, weekday - 1 days back from any
\* other day), a Monday with key <= d <= key + 6; the month bucket key is the
\* first day of d's month; equal date strings have equal keys and the keys
\* are monotone in the date.
C22_BucketKeyIsWeekMondayOrMonthStart ==
    call.op = "getBucketKey" =>
        /\ \A i \in 1..2 :
              /\ call.bucketBy = "week" =>
                    IsoMondayOf(response[i], ParseDate(call.dates[i]))
              /\ call.bucketBy = "month" =>
                    MonthStartOf(response[i],
                                 CivilFromDays(ParseDate(call.dates[i])))
        /\ call.dates[1] = call.dates[2] => response[1] = response[2]
        /\ KeysMonotone(call.dates[1], call.dates[2], response[1],
                        response[2])

\* The week key of Sunday 2025-01-05 and of Wednesday 2025-01-01 were asked
\* for: both lie in the week of Monday 2024-12-30, in the year before.
C22_SundayAndMidweekAcrossNewYear ==
    /\ call.op = "getBucketKey"
    /\ call.bucketBy = "week"
    /\ call.dates = <<FormatDate(DaysFromCivil(2025, 1, 1)),
                      FormatDate(DaysFromCivil(2025, 1, 5))>>
    /\ response[1] = FormatDate(DaysFromCivil(2024, 12, 30))
    /\ response[2] = response[1]

----------------------------------------------------------------------------
(* Specification SpecPoints: the charts of a store with a user named "date" *)

PointsUserIds == {1, 2}

\* User 1 is named "date", user 2 "bob".
PointsUserDoc(id) ==
    [id          |-> id,
     slackUserId |-> <<85, 48, 48, 48, 48 + id>>,
     slackTeamId |-> "T1",
     displayName |-> IF id = 1 THEN Some(DateKey)
                     ELSE Some(<<98, 111, 98>>)]

PointsRecords ==
    {StatDoc(id, FormatDate(day), Absent, SeriesUsage(id)) :
        id \in PointsUserIds, day \in ChartDays}

InitPoints ==
    /\ nowDay = ChartNowDay
    /\ dailyStats \in Tables(PointsRecords)
    /\ users = {PointsUserDoc(id) : id \in PointsUserIds}
    /\ insightsReports = {}
    /\ apiKeys = <<>>
    /\ txn = NoTxn
    /\ call = NoCall
    /\ response = NoCall

NextPoints ==
    \/ \E bucketBy \in ChartBuckets :
          GetDailyUsageChart("monthly", bucketBy, Absent)
    \/ \E topN \in ChartTopNs, bucketBy \in ChartBuckets :
          GetUserDailyUsageChart("monthly", topN, bucketBy, Absent)
    \/ Respond

SpecPoints == InitPoints /\ [][NextPoints]_vars

\* The keys are pairwise distinct and strictly ascending as strings, and that
\* order is the order of the buckets in time.
KeysStrictlyAscending(keys) ==
    \A i \in 1..Len(keys) : \A j \in 1..Len(keys) :
        i < j => /\ keys[i] # keys[j]
                 /\ StrLE(keys[i], keys[j])
                 /\ ParseDate(keys[i]) < ParseDate(keys[j])

\* The date fields of the points, in the order of the points.
DateFields(points) == [i \in 1..Len(points) |-> points[i][DateKey]]

\* No series of the chart is written under the name of the date field: the
\* date field of every point still holds the point's bucket key.
DateFieldKept(chart) ==
    \A j \in 1..Len(chart.users) : chart.users[j].displayName # DateKey

\* C21: in the output of getDailyUsageChart and of getUserDailyUsageChart, for
\* every bucket mode, the bucket keys of the points are pairwise distinct and
\* the points are in strictly ascending order of their keys as strings, which
\* is the order of the buckets in time.
C21_BucketKeysStrictlyAscending ==
    /\ call.op = "getDailyUsageChart" =>
          KeysStrictlyAscending([i \in 1..Len(response) |-> response[i].date])
    /\ call.op = "getUserDailyUsageChart" =>
          /\ DateFieldKept(response)
          /\ KeysStrictlyAscending(DateFields(response.chartData))

\* What does hold: the points of getDailyUsageChart always are in strictly
\* ascending order of distinct keys, and those of getUserDailyUsageChart are
\* whenever no listed user's series key is "date".
C21_AscendingUnlessSeriesNamedDate ==
    /\ call.op = "getDailyUsageChart" =>
          KeysStrictlyAscending([i \in 1..Len(response) |-> response[i].date])
    /\ (call.op = "getUserDailyUsageChart" /\ DateFieldKept(response)) =>
          KeysStrictlyAscending(DateFields(response.chartData))

\* The date field of two points of one chart holds the same number: the cost
\* of the user named "date" in either bucket.
C21_TwoPointsWithOneDateField ==
    /\ call.op = "getUserDailyUsageChart"
    /\ ~ DateFieldKept(response)
    /\ Len(response.chartData) >= 2
    /\ response.chartData[1][DateKey] = response.chartData[2][DateKey]
    /\ response.chartData[1][DateKey] = Round2(QuarterCents)

----------------------------------------------------------------------------
(* Properties of the cumulative chart (specification SpecSeries) *)

\* What the query answered to the component of the call.
ChartOfView ==
    getUserDailyUsageChart(call.period, Absent, Some(call.bucket),
                           Some(call.timeRange))

RECURSIVE SeriesSum(_, _, _)
\* The sum of the series' values over the first i points.
SeriesSum(points, key, i) ==
    IF i = 0 THEN 0 ELSE SeriesSum(points, key, i - 1) + points[i][key]

RECURSIVE InsertPoint(_, _)
InsertPoint(sorted, p) ==
    IF sorted = <<>> THEN <<p>>
    ELSE IF StrLE(sorted[1][DateKey], p[DateKey])
         THEN <<sorted[1]>> \o InsertPoint(Tail(sorted), p)
         ELSE <<p>> \o sorted

RECURSIVE SortPointsFrom(_, _)
SortPointsFrom(sorted, rest) ==
    IF rest = <<>> THEN sorted
    ELSE SortPointsFrom(InsertPoint(sorted, rest[1]), Tail(rest))

\* The points sorted once more, ascending by bucket key.
SortPoints(points) == SortPointsFrom(<<>>, points)

\* The cumulative chart of the query's answer with its points sorted again.
CumulativeOfResorted(data, bucket) ==
    finalData([users |-> data.users, chartData |-> SortPoints(data.chartData)],
              bucket, TRUE)

\* The step drew a cumulative chart.
DrewCumulative ==
    /\ call.op = "MemberUsageChart"
    /\ call.cumulative
    /\ response.view = "chart"

\* C23: the cumulative transform yields, for each series and each position i
\* of the ascending bucket sequence, the sum of that series' values over the
\* positions up to i, and it yields the same output for the bucket sequence
\* as it is and for the sequence sorted once more.
C23_CumulativeIsRunningSum ==
    DrewCumulative =>
        /\ Len(response.finalData) = Len(ChartOfView.chartData)
        /\ \A i \in 1..Len(response.finalData) :
              \A j \in 1..Len(response.users) :
                 response.finalData[i][response.users[j].displayName]
                    = SeriesSum(ChartOfView.chartData,
                                response.users[j].displayName, i)
        /\ CumulativeOfResorted(ChartOfView, call.bucket) = response.finalData

\* What does hold: a series whose key no other listed user shares is the
\* running sum of its values, and sorting the points again changes nothing.
C23_RunningSumUnderOwnKey ==
    DrewCumulative =>
        /\ Len(response.finalData) = Len(ChartOfView.chartData)
        /\ \A i \in 1..Len(response.finalData) :
              \A j \in 1..Len(response.users) :
                 OwnKey(response.users, j) =>
                    response.finalData[i][response.users[j].displayName]
                       = SeriesSum(ChartOfView.chartData,
                                   response.users[j].displayName, i)
        /\ CumulativeOfResorted(ChartOfView, call.bucket) = response.finalData

\* What a key shared by two listed users shows: each point's value is added
\* once per user, twice the running sum.
C23_SharedKeyCountedPerUser ==
    DrewCumulative =>
        \A i \in 1..Len(response.finalData) :
            \A j \in 1..Len(response.users) :
               Cardinality({k \in 1..Len(response.users) :
                   response.users[k].displayName
                       = response.users[j].displayName}) = 2 =>
                   response.finalData[i][response.users[j].displayName]
                      = 2 * SeriesSum(ChartOfView.chartData,
                                      response.users[j].displayName, i)

----------------------------------------------------------------------------
(* Properties of the order of a leaderboard (specification Spec) *)

\* C24: leaderboard entries are sorted strictly descending by total cost: of
\* any two consecutive entries of a returned leaderboard the earlier one has
\* the strictly greater total cost.
C24_EntriesStrictlyDescending ==
    call.op \in BoardOps =>
        \A i \in 1..(Len(Board) - 1) :
            Board[i].totalCost > Board[i + 1].totalCost

\* C24 as it holds: of any two consecutive entries the earlier one has a
\* total cost greater than or equal to the later one's, and the first entry
\* has the highest total cost of the list.
C24_EntriesNeverAscending ==
    call.op \in BoardOps =>
        /\ \A i \in 1..(Len(Board) - 1) :
              ~ (Board[i].totalCost < Board[i + 1].totalCost)
        /\ \A i \in 1..Len(Board) :
              ~ (Board[1].totalCost < Board[i].totalCost)

\* The first two entries of a returned leaderboard have the same total cost,
\* above that of a third.
C24_TiedAtTheTop ==
    /\ call.op \in BoardOps
    /\ Len(Board) = 3
    /\ Board[1].totalCost = Board[2].totalCost
    /\ Board[2].totalCost > Board[3].totalCost

\* The first of the positions that holds a record of the user.
FirstRowIn(rows, userId) ==
    CHOOSE k \in rows :
        /\ dailyStats[k].userId = userId
        /\ \A n \in rows : n < k => dailyStats[n].userId # userId

\* For every user with a record at one of the positions, the first of them.
FirstRowsIn(rows) ==
    [id \in {dailyStats[k].userId : k \in rows} |-> FirstRowIn(rows, id)]

\* For every user with an in-window record, the position of the first one
\* in the table.
FirstRows(period) == FirstRowsIn(WindowRows(period))

\* Entries of equal total cost are ranked in the order of the positions.
TiesOrderedBy(board, first) ==
    \A i \in 1..Len(board) : \A j \in 1..Len(board) :
        (/\ board[i].totalCost = board[j].totalCost
         /\ first[board[i].userId] < first[board[j].userId])
            => board[i].rank < board[j].rank

\* C26: among users with equal total cost, the user whose first in-window
\* record comes earlier in the fetched record sequence has the smaller rank.
C26_TiesInOrderOfFirstRecord ==
    call.op \in BoardOps => TiesOrderedBy(Board, FirstRows(call.period))

\* Two users tie, and the one with the larger id has the earlier record and
\* the smaller rank; a third user with a larger total ranks above both
\* although its record comes last.
C26_TieWonByEarlierRecord ==
    /\ call.op \in BoardOps
    /\ Len(Board) = 3
    /\ Board[2].totalCost = Board[3].totalCost
    /\ Board[1].totalCost > Board[2].totalCost
    /\ Board[2].userId > Board[3].userId
    /\ FirstRows(call.period)[Board[2].userId]
           < FirstRows(call.period)[Board[3].userId]
    /\ FirstRows(call.period)[Board[3].userId]
           < FirstRows(call.period)[Board[1].userId]

----------------------------------------------------------------------------
(* Properties of the selection of chart users (specification SpecChart) *)

\* The window of the chart call.
WindowOfChart == ChartRange(call.period, call.bucketBy, call.timeRange)

\* The positions of the user's records between the two days.
ChartRowsIn(userId, firstDay, lastDay) ==
    {k \in 1..Len(dailyStats) :
        /\ dailyStats[k].userId = userId
        /\ firstDay <= ParseDate(getEffectiveDate(dailyStats[k]))
        /\ ParseDate(getEffectiveDate(dailyStats[k])) <= lastDay}

\* For every user, whether it has a record between the two days, and the
\* total cost of those records added up in table order.
WindowTotalsIn(firstDay, lastDay) ==
    [id \in ChartUserIds |->
        [present |-> ChartRowsIn(id, firstDay, lastDay) # {},
         total   |-> CostInOrder(0, ChartRowsIn(id, firstDay, lastDay))]]

WindowTotals ==
    WindowTotalsIn(ParseDate(WindowOfChart.startDate),
                   ParseDate(WindowOfChart.endDate))

\* The users the chart lists.
ChartSelected == {response.users[j].userId : j \in 1..Len(response.users)}

\* The same chart call on the records of the given users alone.
ChartOfUsersAlone(selected) ==
    userChart(SelectSeq(dailyStats, LAMBDA s : s.userId \in selected),
              WindowOfChart,
              IF call.topN = Absent THEN DefaultTopN ELSE call.topN[1],
              call.bucketBy)

\* The list has min(topN, users with a record) distinct members with a
\* record, in order of non-increasing total, and no user left out has a
\* strictly greater total than a listed one.
TopUsersOf(list, selected, totals, topN) ==
    /\ Len(list)
          = Min(topN, Cardinality({id \in ChartUserIds : totals[id].present}))
    /\ Cardinality(selected) = Len(list)
    /\ \A id \in selected : totals[id].present
    /\ \A j \in 1..Len(list) : \A k \in j..Len(list) :
          totals[list[j].userId].total >= totals[list[k].userId].total
    /\ \A id \in ChartUserIds \ selected :
          totals[id].present =>
              \A j \in 1..Len(list) :
                  ~ (totals[id].total > totals[list[j].userId].total)

\* C27: the users list of getUserDailyUsageChart has min(topN, number of
\* users with an in-window record) members, topN being 10 when not given; it
\* is in order of non-increasing window-total cost; no user left out has a
\* strictly greater window-total cost than a listed one; and only records of
\* the listed users contribute to the chart points.
C27_TopUsersByWindowTotal ==
    call.op = "getUserDailyUsageChart" =>
        /\ TopUsersOf(response.users, ChartSelected, WindowTotals,
                      IF call.topN = Absent THEN 10 ELSE call.topN[1])
        /\ ChartOfUsersAlone(ChartSelected) = response

\* With topN = 1 the chart lists user 2 alone: user 1's record comes first in
\* the table and costs less, and the day on which only user 1 has a record
\* has no point.
C27_CheaperUserLeftOut ==
    /\ call.op = "getUserDailyUsageChart"
    /\ call.topN = Some(1)
    /\ call.bucketBy = Some("day")
    /\ Len(dailyStats) = 3
    /\ dailyStats[1].userId = 1
    /\ ChartSelected = {2}
    /\ WindowTotals[1].present
    /\ WindowTotals[1].total < WindowTotals[2].total
    /\ Len(response.chartData) = 1
    /\ dailyStats[1].date # response.chartData[1][DateKey]

----------------------------------------------------------------------------
(* Specification SpecLimit: the leaderboard queries with a limit of 0 *)

\* Records of three users: users 1 and 2 on the clock day, user 3 three days
\* before it.
LimitRecords ==
    {StatDoc(id, FormatDate(IF id = 3 THEN RankNowDay - 3 ELSE RankNowDay),
             Absent, SeriesUsage(id)) : id \in UserIds}

ZeroLimits == {Absent, Some(0), Some(1)}

\* The window of the getLeaderboardByDateRange calls: the last four days.
LimitRangeStart == FormatDate(RankNowDay - 3)

LimitRangeEnd == FormatDate(RankNowDay)

InitLimit ==
    /\ nowDay = RankNowDay
    /\ dailyStats \in Tables(LimitRecords)
    /\ users = {UserDoc(id) : id \in UserIds}
    /\ insightsReports = {1}
    /\ apiKeys = <<>>
    /\ txn = NoTxn
    /\ call = NoCall
    /\ response = NoCall

NextLimit ==
    \/ \E period \in Periods, limit \in ZeroLimits : GetPageData(period, limit)
    \/ \E teamId \in Teams, limit \in ZeroLimits :
          GetDailyLeaderboard(teamId, limit)
    \/ \E teamId \in Teams, limit \in ZeroLimits :
          GetWeeklyLeaderboard(teamId, limit)
    \/ \E teamId \in Teams, limit \in ZeroLimits :
          GetMonthlyLeaderboard(teamId, limit)
    \/ \E teamId \in Teams, limit \in ZeroLimits :
          GetAllTimeLeaderboard(teamId, limit)
    \/ \E teamId \in Teams, limit \in ZeroLimits :
          GetLeaderboardByDateRange(LimitRangeStart, LimitRangeEnd, teamId,
                                    limit)
    \/ Respond

SpecLimit == InitLimit /\ [][NextLimit]_vars

LimitedOps == BoardOps \cup {"getLeaderboardByDateRange"}

\* What the call would have been answered without a limit.
UnlimitedAnswer ==
    CASE call.op = "getPageData" -> getPageData(call.period, Absent).value
      [] call.op = "getDailyLeaderboard" ->
             getDailyLeaderboard(call.teamId, Absent).value
      [] call.op = "getWeeklyLeaderboard" ->
             getWeeklyLeaderboard(call.teamId, Absent).value
      [] call.op = "getMonthlyLeaderboard" ->
             getMonthlyLeaderboard(call.teamId, Absent).value
      [] call.op = "getAllTimeLeaderboard" ->
             getAllTimeLeaderboard(call.teamId, Absent)
      [] call.op = "getLeaderboardByDateRange" ->
             getLeaderboardByDateRange(call.startDate, call.endDate,
                                       call.teamId, Absent)

\* The first and the last day of the call's window.
LimitWindowFirst ==
    IF call.op = "getLeaderboardByDateRange" THEN ParseDate(call.startDate)
    ELSE WindowFirstDay(call.period)

LimitWindowLast ==
    IF call.op = "getLeaderboardByDateRange" THEN ParseDate(call.endDate)
    ELSE WindowLastDay

\* The listed users with a record in the call's window.
RankedUsers(firstDay, lastDay) ==
    {id \in UserIds :
        /\ Listed(id, call.teamId)
        /\ \E k \in 1..Len(dailyStats) :
              /\ dailyStats[k].userId = id
              /\ firstDay <= ParseDate(getEffectiveDate(dailyStats[k]))
              /\ ParseDate(getEffectiveDate(dailyStats[k])) <= lastDay}

\* The entries of a leaderboard answer.
EntriesOf(answer) ==
    IF call.op = "getPageData" THEN answer.leaderboard ELSE answer

============================================================================
